---- MODULE Spec2Model ----
(***************************************************************************)
(* Model of the truth-extractor pipeline of SiteExtractor:                 *)
(*   - WebFetcher   (src/truth_extractor/crawl/fetcher.py)                 *)
(*   - WebCrawler   (src/truth_extractor/crawl/crawler.py)                 *)
(*   - Candidate    (src/truth_extractor/extraction/models.py)             *)
(*   - scoring      (src/truth_extractor/resolve/scoring.py)               *)
(*   - resolver     (src/truth_extractor/resolve/resolver.py)              *)
(*   - orchestrator (src/truth_extractor/orchestrator.py)                  *)
(*   - AssetStore   (src/backend/export/asset_store.py)                    *)
(*   - RunManager   (src/backend/crawl/runner.py)                          *)
(*   - RunStore     (src/backend/storage/runs.py)                          *)
(*                                                                         *)
(* The specifications share the variables:                                 *)
(*   SpecFetch    one WebFetcher instance serving a sequence of fetch()    *)
(*                calls on an integer clock;                               *)
(*   SpecRate     the rate limit of successive fetch() calls;              *)
(*   SpecCrawl    one WebCrawler.crawl() run, loop iteration by iteration; *)
(*   SpecScore    Candidate.score, deduplicate_candidates and the          *)
(*                resolvers on bounded candidate lists;                    *)
(*   SpecExtract  one TruthExtractor.extract() run, page by page;          *)
(*   SpecAssets   one AssetStore serving a sequence of download_and_store  *)
(*                calls;                                                   *)
(*   SpecRun      one run of the backend RunManager: its worker loop, the  *)
(*                RunStore files and the API calls made meanwhile.         *)
(***************************************************************************)
EXTENDS Integers, Sequences, FiniteSets, TLC

VARIABLES
    config,             \* CrawlConfig of the fetcher / crawler
    stats,              \* WebFetcher.stats (CrawlStats counters)
    last_request_time,  \* WebFetcher.last_request_time
    robots_parsers,     \* WebFetcher.robots_parsers, per host
    now,                \* the clock read by time.time()
    sends,              \* history: send time of every HTTP GET of the session
    stamps,             \* history: every value assigned to last_request_time
    call,               \* history: the last fetch() call and what it returned
    base_domain,        \* crawl(): scheme://netloc of the normalized start URL
    queue,              \* crawl(): BFS queue of <<url, depth>>
    visited,            \* crawl(): visited set
    queued,             \* crawl(): queued set
    pages,              \* crawl(): result.pages
    failed_urls,        \* crawl(): result.failed_urls
    pc,                 \* crawl(): position in the loop
    fetch_result,       \* crawl(): the FetchResult being processed
    cur,                \* crawl(): the <<url, depth>> popped last
    fetched,            \* history: urls handed to fetcher.fetch, in order
    renders,            \* history: number of fetch_with_playwright calls
    enq,                \* history: links enqueued by the last processed page
    dup_links,          \* history: links of that page refused as visited or queued
    unqueued,           \* history: acceptable links read from a page and never put on the queue
    page_links,         \* history: the links of the page the last step processed, each with
                        \* the URL it normalizes to, _is_priority_url(link) and whether
                        \* it sits in a navigation element
    fallback,           \* history: the fetch_with_playwright call of that step, if any, with
                        \* is_javascript_spa() of the page and what the call did
    candidates,         \* resolver: the candidate objects of one field bucket
    dedup_in,           \* history: the list last passed to deduplicate_candidates
    deduped,            \* history: what deduplicate_candidates returned for it
    field_result,       \* resolver: the FieldResult returned last
    resolves,           \* history: number of resolve_* calls on the bucket
    opc,                \* extract(): position in TruthExtractor.extract
    page_i,             \* extract(): index of the page _extract_all_candidates is at
    services_max_count, \* config.extraction.services_max_count
    logo_hint,          \* history: the logo_url given to ColorExtractor.extract_colors
    all_candidates,     \* extract(): the field buckets (all_candidates)
    appended,           \* history: every candidate an extractor appended, per field
    ran,                \* history: <<page, extractor>> pairs that ran to completion
    threw,              \* history: <<page, extractor>> pairs that raised
    fields,             \* extract(): the resolved field map
    truth_record,       \* extract(): the truth record built last
    written,            \* extract(): output files written by OutputWriter
    asset_config,       \* AssetStore.config
    file_data,          \* AssetStore._file_data, sha256 -> bytes
    manifest,           \* AssetStore._manifest, sha256 -> entry
    url_to_hash,        \* AssetStore._url_to_hash
    skipped,            \* AssetStore._skipped
    total_bytes,        \* AssetStore._total_bytes
    dl,                 \* the download_and_store call in progress or returned last
    gets,               \* history: url of every client.get of the store
    run_registry,       \* RunManager._runs: the ids of the registered runs
    run_frontier,       \* RunState.frontier of the run
    run_store,          \* RunStore of the run: the contents of pages.json and meta.json
    worker,             \* _worker_loop of the run: its position and the work() calls of its batch
    run_log,            \* history: stop() returned True, finalize() calls, the clock,
                        \* fetch() calls, docs given to save_doc, the last API reply
    refs                \* history: <<url, page_id>> of every call that returned an entry

fetcherVars == <<config, stats, last_request_time, robots_parsers, now, sends, stamps, call>>
crawlVars   == <<base_domain, queue, visited, queued, pages, failed_urls, pc, fetch_result, cur, fetched, renders, enq, dup_links, unqueued, page_links, fallback>>
scoreVars   == <<candidates, dedup_in, deduped, field_result, resolves>>
orchVars    == <<opc, page_i, services_max_count, logo_hint, all_candidates, appended, ran, threw, fields, truth_record, written>>
assetVars   == <<asset_config, file_data, manifest, url_to_hash, skipped, total_bytes, dl, gets, refs>>
runVars     == <<run_registry, run_frontier, run_store, worker, run_log>>
restVars    == <<orchVars, assetVars, runVars>>
vars        == <<fetcherVars, crawlVars, scoreVars, restVars>>

(***************************************************************************)
(* Bounds of the model                                                     *)
(***************************************************************************)
MaxPagesBound == 3      \* max_pages ranges over 0..MaxPagesBound
MaxDepthBound == 2      \* max_depth ranges over -1..MaxDepthBound
MaxRetryBound == 2      \* retry_attempts ranges over 0..MaxRetryBound
MaxDelay      == 2      \* rate_limit_delay ranges over 0..MaxDelay (ticks)
MaxCalls      == 2      \* fetch() calls of one fetcher in SpecFetch
MaxLinks      == 2      \* anchors on one page
MaxIdle       == 2      \* ticks the caller may spend between two fetch() calls

Min(a, b) == IF a <= b THEN a ELSE b

RECURSIVE Pow2(_)
Pow2(n) == IF n <= 0 THEN 1 ELSE 2 * Pow2(n - 1)

Range(s) == { s[i] : i \in 1..Len(s) }

SeqsUpTo(S, n) == UNION { [1..k -> S] : k \in 0..n }

(***************************************************************************)
(* URLs.  A URL is its host (subdomain, registered domain) and path; an    *)
(* href found in a page may also carry a fragment.                         *)
(***************************************************************************)
Url(sub, dom, path) == [sub |-> sub, dom |-> dom, path |-> path]

Home  == Url("www",  "site.com",  "/")
About == Url("www",  "site.com",  "/about")
Page  == Url("www",  "site.com",  "/page")
Blog  == Url("blog", "site.com",  "/post")
Admin == Url("www",  "site.com",  "/admin/users")
Pdf   == Url("www",  "site.com",  "/doc.pdf")
Other == Url("www",  "other.com", "/")

Urls == {Home, About, Page, Blog, Admin, Pdf, Other}

Href(u, frag) == [sub |-> u.sub, dom |-> u.dom, path |-> u.path, frag |-> frag]

\* fetcher.py normalize_url: absolute URL with the fragment removed.
normalize_url(href) == Url(href.sub, href.dom, href.path)

\* fetcher.py extract_domain / is_same_domain: the registered domain.
extract_domain(u) == u.dom
is_same_domain(u1, u2) == extract_domain(u1) = extract_domain(u2)

\* key of robots_parsers: scheme://netloc
Host(u) == <<u.sub, u.dom>>
Hosts == { Host(u) : u \in Urls }

(***************************************************************************)
(* WebFetcher (crawl/fetcher.py)                                           *)
(***************************************************************************)
\* config.py CrawlConfig default: retry_backoff = 2.0
RetryBackoff == 2

\* time.time() when the fetcher is constructed: far from last_request_time = 0.0
Epoch == 10

\* fetcher.py:82 Retry(status_forcelist=...)
status_forcelist == {"429", "500", "502", "503", "504"}

\* What one HTTP attempt can meet: a response of the server, a response
\* served by the installed requests_cache, or an exception of the adapter.
Http(code, body)   == [kind |-> "http",    code |-> code,   body |-> body]
Cached(code, body) == [kind |-> "cache",   code |-> code,   body |-> body]
TimeoutErr         == [kind |-> "timeout", code |-> "None", body |-> ""]
ConnErr            == [kind |-> "connerr", code |-> "None", body |-> ""]
Crash              == [kind |-> "crash",   code |-> "None", body |-> ""]

NetAnswers   == {Http("200", "html"), Http("200", ""), Http("404", "html"),
                 Http("503", "html"), Http("429", ""), TimeoutErr, ConnErr, Crash}
CacheAnswers == {Cached("200", "html"), Cached("404", "html")}

\* urllib3 Retry(total=retry_attempts, status_forcelist, allowed_methods GET):
\* what the mounted adapter sends again.
Retryable(r) ==
    \/ r.kind \in {"timeout", "connerr"}
    \/ r.kind = "http" /\ r.code \in status_forcelist

\* urllib3 Retry.get_backoff_time: nothing before the first retry, then
\* backoff_factor * 2^(k-1) before the k-th.
Backoff(cfg, k) == IF k <= 1 THEN 0 ELSE cfg.retry_backoff * Pow2(k - 1)

\* a retry budget that is one short
WillRetryOneShort(cfg, i, r) == Retryable(r) /\ i < cfg.retry_attempts

\* Retry.increment / is_exhausted with total = retry_attempts: the answer
\* to attempt i is retried while fewer than total retries were made.
WillRetry(cfg, i, r) == Retryable(r) /\ i <= cfg.retry_attempts

\* What session.get hands to fetch() for the final answer r: a response,
\* or the exception requests raises (RetryError and ConnectionError are
\* RequestExceptions) when a retryable answer exhausted the retries.
GetOutcome(r) ==
    IF Retryable(r)
    THEN IF r.kind = "timeout"
         THEN [kind |-> "Timeout", resp |-> r]
         ELSE [kind |-> "RequestException", resp |-> r]
    ELSE IF r.kind = "crash"
         THEN [kind |-> "Exception", resp |-> r]
         ELSE [kind |-> "response", resp |-> r]

FetchResult(url, success, status_code, content, error, from_cache) ==
    [url |-> url, success |-> success, status_code |-> status_code,
     content |-> content, error |-> error, from_cache |-> from_cache,
     raised |-> FALSE]

\* An exception that leaves fetch() uncaught.
Raised(url, exc) ==
    [url |-> url, success |-> FALSE, status_code |-> "None",
     content |-> "", error |-> exc, from_cache |-> FALSE, raised |-> TRUE]

NoResult == FetchResult(Home, FALSE, "None", "", "no call", FALSE)

\* no page processed by the last step
NoFallback == [spa |-> FALSE, outcome |-> "not called"]

\* extract_colors has not been called
NoHint == [type |-> "no call", items |-> << >>]

\* the except clauses of fetch() without the final "except Exception"
HandlersNoCatchAll == {"Timeout", "RequestException"}

\* the except clauses of fetch()
Handlers == {"Timeout", "RequestException", "Exception"}

\* fetch(), lines 185-253: the try block and its handlers.
FetchBody(url, o) ==
    IF o.kind = "response"
    THEN IF o.resp.code = "200"
         THEN FetchResult(url, TRUE, o.resp.code, o.resp.body, "", o.resp.kind = "cache")
         ELSE FetchResult(url, FALSE, o.resp.code, "", "HTTP", FALSE)
    ELSE IF o.kind \in Handlers
         THEN FetchResult(url, FALSE, "None", "", o.kind, FALSE)
         ELSE Raised(url, o.kind)

\* counters that leave out the calls that end in an except clause
StatsAfterNoHandlers(st, o) ==
    LET cached == o.kind = "response" /\ o.resp.kind = "cache"
        ok     == o.kind = "response" /\ o.resp.code = "200"
    IN  [st EXCEPT !.pages_cached     = @ + (IF cached THEN 1 ELSE 0),
                   !.pages_successful = @ + (IF ok THEN 1 ELSE 0),
                   !.pages_failed     = @ + (IF ok \/ o.kind # "response" THEN 0 ELSE 1)]

\* the counters fetch() bumps in the try block and its handlers
StatsAfter(st, o) ==
    LET cached == o.kind = "response" /\ o.resp.kind = "cache"
        ok     == o.kind = "response" /\ o.resp.code = "200"
    IN  [st EXCEPT !.pages_cached     = @ + (IF cached THEN 1 ELSE 0),
                   !.pages_successful = @ + (IF ok THEN 1 ELSE 0),
                   !.pages_failed     = @ + (IF ~ok /\ o.kind \in Handlers \cup {"response"}
                                                THEN 1 ELSE 0)]

\* robots.txt of a host as RobotFileParser sees it: the load fails (parser
\* None), or it yields the set of paths disallowed for the configured agents.
Unloaded        == [state |-> "unloaded", disallow |-> {}]
NoParser        == [state |-> "none",     disallow |-> {}]
Parser(paths)   == [state |-> "loaded",   disallow |-> paths]
RobotsFiles     == {NoParser, Parser({"/page"}), Parser({"/", "/about", "/page", "/post"})}

\* _get_robots_parser: read robots.txt once per host, keep the outcome.
GetRobotsParsers(parsers, url, file) ==
    IF parsers[Host(url)].state = "unloaded"
    THEN [parsers EXCEPT ![Host(url)] = file]
    ELSE parsers

\* can_fetch taking any parser that was read for a permission
CanFetchAnyParser(cfg, parsers, url) ==
    \/ ~cfg.respect_robots
    \/ parsers[Host(url)].state \in {"none", "loaded"}

\* can_fetch, on the parsers as _get_robots_parser left them
can_fetch(cfg, parsers, url) ==
    \/ ~cfg.respect_robots
    \/ parsers[Host(url)].state = "none"
    \/ url.path \notin parsers[Host(url)].disallow

\* _respect_rate_limit that never sleeps
RespectRateLimitNoSleep(cfg, last, t) == t

\* _respect_rate_limit: the clock when it returns, which is also the new
\* last_request_time.
RespectRateLimit(cfg, last, t) ==
    LET elapsed == t - last
    IN  IF elapsed < cfg.rate_limit_delay
        THEN t + (cfg.rate_limit_delay - elapsed)
        ELSE t

NoCall ==
    [n |-> 0, state |-> "idle", url |-> Home, attempt |-> 0, answers |-> << >>,
     sent |-> 0, blocked |-> FALSE, refusals |-> 0, result |-> NoResult]

\* fetch(), lines 169-182, called at clock t: count the attempt, ask
\* robots.txt (read now when the host is new; file is what the read yields),
\* return the refusal or pass the rate limiter and enter session.get.
FetchBegin(url, file, t) ==
    LET parsers2 == IF config.respect_robots
                    THEN GetRobotsParsers(robots_parsers, url, file)
                    ELSE robots_parsers
        begun    == [n |-> call.n + 1, state |-> "get", url |-> url, attempt |-> 1,
                     answers |-> << >>, sent |-> 0, blocked |-> FALSE,
                     refusals |-> call.refusals, result |-> NoResult]
    IN  /\ robots_parsers' = parsers2
        /\ stats' = [stats EXCEPT !.pages_attempted = @ + 1]
        /\ IF ~can_fetch(config, parsers2, url)
           THEN /\ call' = [begun EXCEPT !.state = "returned", !.blocked = TRUE,
                                !.refusals = @ + 1,
                                !.result = FetchResult(url, FALSE, "None", "", "Blocked by robots.txt", FALSE)]
                /\ now' = t
                /\ UNCHANGED <<last_request_time, stamps>>
           ELSE LET wake == RespectRateLimit(config, last_request_time, t)
                IN  /\ call' = begun
                    /\ now' = wake
                    /\ last_request_time' = wake
                    /\ stamps' = Append(stamps, wake)
        /\ UNCHANGED <<config, sends>>

\* fetch(), lines 185-253: one attempt of session.get answered by r after
\* lat ticks.  A cached answer is served without a request; a retryable
\* answer is sent again after the backoff while retries remain; any other
\* answer ends the call with the FetchResult of the matching branch.
FetchAttempt(r, lat) ==
    /\ call.state = "get"
    /\ r.kind = "cache" => call.attempt = 1
    /\ LET onwire   == r.kind # "cache"
           answers2 == Append(call.answers, r)
           sent2    == call.sent + (IF onwire THEN 1 ELSE 0)
       IN  /\ sends' = IF onwire THEN Append(sends, now) ELSE sends
           /\ IF WillRetry(config, call.attempt, r)
              THEN /\ now' = now + lat + Backoff(config, call.attempt)
                   /\ call' = [call EXCEPT !.attempt = @ + 1, !.answers = answers2, !.sent = sent2]
                   /\ UNCHANGED stats
              ELSE LET o == GetOutcome(r)
                   IN  /\ now' = now + lat
                       /\ stats' = StatsAfter(stats, o)
                       /\ call' = [call EXCEPT !.state = "returned", !.answers = answers2,
                                       !.sent = sent2, !.result = FetchBody(call.url, o)]
    /\ UNCHANGED <<config, last_request_time, robots_parsers, stamps>>

Config(mp, md, delay, retry, robots, pw) ==
    [max_pages |-> mp, max_depth |-> md, rate_limit_delay |-> delay,
     retry_attempts |-> retry, retry_backoff |-> RetryBackoff,
     respect_robots |-> robots, use_playwright |-> pw]

\* WebFetcher.__init__
FetcherInit ==
    /\ stats = [pages_attempted |-> 0, pages_successful |-> 0, pages_failed |-> 0, pages_cached |-> 0]
    /\ last_request_time = 0
    /\ robots_parsers = [h \in Hosts |-> Unloaded]
    /\ now = Epoch
    /\ sends = << >>
    /\ stamps = << >>
    /\ call = NoCall

CrawlIdle ==
    /\ base_domain = Url(Home.sub, Home.dom, "")
    /\ queue = << >>
    /\ visited = {}
    /\ queued = {}
    /\ pages = << >>
    /\ failed_urls = << >>
    /\ pc = "idle"
    /\ fetch_result = NoResult
    /\ cur = <<Home, 0>>
    /\ fetched = << >>
    /\ renders = 0
    /\ enq = << >>
    /\ dup_links = 0
    /\ unqueued = {}
    /\ page_links = {}
    /\ fallback = NoFallback

ScoreIdle ==
    /\ candidates = << >>
    /\ dedup_in = << >>
    /\ deduped = << >>
    /\ field_result = [value |-> [type |-> "none", items |-> << >>], confidence |-> 0,
                       provenance |-> << >>, notes |-> "no call"]
    /\ resolves = 0

\* no extract() run and no AssetStore in use
OrchIdle ==
    /\ opc = "idle"
    /\ page_i = 0
    /\ services_max_count = 8
    /\ logo_hint = NoHint
    /\ all_candidates = << >>
    /\ appended = << >>
    /\ ran = {}
    /\ threw = {}
    /\ fields = << >>
    /\ truth_record = << >>
    /\ written = {}

AssetIdle ==
    /\ asset_config = << >>
    /\ file_data = << >>
    /\ manifest = << >>
    /\ url_to_hash = << >>
    /\ skipped = << >>
    /\ total_bytes = 0
    /\ dl = << >>
    /\ gets = << >>
    /\ refs = {}

\* RunStore files before RunStore.__init__ has written them
NoMeta == [status |-> "none", completed_at |-> 0, pages |-> << >>, errors |-> << >>]

\* RunManager.__init__: no run is registered
RunIdle ==
    /\ run_registry = {}
    /\ run_frontier = [start_url |-> Home, queue |-> << >>, seen |-> {}, visited |-> 0, max_pages |-> 0]
    /\ run_store = [pages_file |-> << >>, meta_file |-> NoMeta]
    /\ worker = [pc |-> "none", work |-> {}]
    /\ run_log = [started |-> FALSE, stopped |-> FALSE, finalizes |-> 0, clock |-> 0, fetches |-> << >>,
                  saved |-> << >>, reply |-> [op |-> "none", value |-> << >>]]

RestIdle == OrchIdle /\ AssetIdle /\ RunIdle

(***************************************************************************)
(* SpecFetch: one WebFetcher serving MaxCalls calls of fetch(), every      *)
(* answer of the network explored, the clock moved by the fetcher only.    *)
(***************************************************************************)
FetchUrls == {Home, Page, Blog}

InitFetch ==
    /\ config \in { Config(20, 2, 1, r, b, TRUE) : r \in 0..MaxRetryBound, b \in BOOLEAN }
    /\ FetcherInit
    /\ CrawlIdle
    /\ ScoreIdle
    /\ RestIdle

\* the caller calls fetch(url) as soon as the previous call returned
FetchCall ==
    /\ call.state \in {"idle", "returned"}
    /\ call.n < MaxCalls
    /\ \E url \in FetchUrls, file \in RobotsFiles : FetchBegin(url, file, now)
    /\ UNCHANGED <<crawlVars, scoreVars, restVars>>

\* the session sends the next attempt of the running call
FetchSend ==
    /\ \E r \in NetAnswers \cup CacheAnswers : FetchAttempt(r, 0)
    /\ UNCHANGED <<crawlVars, scoreVars, restVars>>

NextFetch == FetchCall \/ FetchSend

SpecFetch == InitFetch /\ [][NextFetch]_vars

(***************************************************************************)
(* SpecRate: the same fetcher on a clock that also moves between calls     *)
(* and while a request is in flight.                                       *)
(***************************************************************************)
RateAnswers == {Http("200", "html"), Http("503", "html"), Cached("200", "html")}

InitRate ==
    /\ config \in { Config(20, 2, d, r, TRUE, TRUE) : d \in 1..MaxDelay, r \in 0..MaxRetryBound }
    /\ FetcherInit
    /\ CrawlIdle
    /\ ScoreIdle
    /\ RestIdle

RateCall ==
    /\ call.state \in {"idle", "returned"}
    /\ call.n < MaxCalls
    /\ \E url \in {Home, Page}, file \in {NoParser, Parser({"/page"})}, idle \in 0..MaxIdle :
           FetchBegin(url, file, now + idle)
    /\ UNCHANGED <<crawlVars, scoreVars, restVars>>

RateSend ==
    /\ \E r \in RateAnswers, lat \in 0..1 : FetchAttempt(r, lat)
    /\ UNCHANGED <<crawlVars, scoreVars, restVars>>

NextRate == RateCall \/ RateSend

SpecRate == InitRate /\ [][NextRate]_vars

(***************************************************************************)
(* WebCrawler (crawl/crawler.py)                                           *)
(***************************************************************************)
\* _is_priority_url: a priority pattern ("about", "contact", ...) occurs in
\* the lower-cased link, which is the absolute href with its fragment.
IsPriorityUrl(l) == l.path = "/about" \/ l.frag = "about"

\* _should_crawl_url, lines 113-125: path.endswith(ext) for a skipped
\* extension, and a skipped path segment occurring in the path.
EndsWithSkipExt(path) == path = "/doc.pdf"
HasSkipPath(path)     == path = "/admin/users"

\* _should_crawl_url without the test of the registered domain
ShouldCrawlUrlAnyDomain(url, base, vis, qd) ==
    /\ ~(url \in vis \/ url \in qd)
    /\ ~EndsWithSkipExt(url.path)
    /\ ~HasSkipPath(url.path)

\* _should_crawl_url without the test of the queued set
ShouldCrawlUrlForgetsQueued(url, base, vis, qd) ==
    /\ url \notin vis
    /\ is_same_domain(url, base)
    /\ ~EndsWithSkipExt(url.path)
    /\ ~HasSkipPath(url.path)

\* _should_crawl_url
ShouldCrawlUrl(url, base, vis, qd) ==
    /\ ~(url \in vis \/ url \in qd)
    /\ is_same_domain(url, base)
    /\ ~EndsWithSkipExt(url.path)
    /\ ~HasSkipPath(url.path)

\* An <a href> of a page: the absolute href and whether the tag sits in a
\* <nav> or <header> element.
Anchor(u, frag, nav) == [href |-> Href(u, frag), nav |-> nav]

Anchors ==
    {Anchor(Home, "top", TRUE), Anchor(About, "", TRUE), Anchor(About, "", FALSE),
     Anchor(Page, "", TRUE), Anchor(Page, "about", FALSE), Anchor(Blog, "", FALSE),
     Anchor(Admin, "", TRUE), Anchor(Pdf, "", FALSE), Anchor(Other, "", FALSE)}

\* parser.get_all_links / parser.get_navigation_links of a parsed page
AllLinks(anchors) == [i \in 1..Len(anchors) |-> anchors[i].href]
NavLinks(anchors) ==
    LET InNav(a) == a.nav
        navs     == SelectSeq(anchors, InNav)
    IN  [i \in 1..Len(navs) |-> navs[i].href]

\* what the crawl step sees of the links of a page
PageLinks(anchors) ==
    { [url      |-> normalize_url(anchors[i].href),
       priority |-> IsPriorityUrl(anchors[i].href),
       nav      |-> anchors[i].nav] : i \in 1..Len(anchors) }

\* the links of a page that _should_crawl_url accepts on a crawl that has
\* neither visited nor queued anything, normalized
AcceptableLinks(anchors, base) ==
    { normalize_url(anchors[i].href) : i \in
        { j \in 1..Len(anchors) : ShouldCrawlUrl(normalize_url(anchors[j].href), base, {}, {}) } }

\* the links in the order of the page
CandidateLinksInPageOrder(anchors) == AllLinks(anchors)

\* crawl(), lines 218-227: priority links, then navigation links, then the rest
CandidateLinks(anchors) ==
    LET all_links      == AllLinks(anchors)
        nav_links      == NavLinks(anchors)
        IsPrio(l)      == IsPriorityUrl(l)
        priority_links == SelectSeq(all_links, IsPrio)
        NavOnly(l)     == l \notin Range(priority_links)
        IsOther(l)     == l \notin Range(priority_links) /\ l \notin Range(nav_links)
    IN  priority_links \o SelectSeq(nav_links, NavOnly) \o SelectSeq(all_links, IsOther)

\* a deque that takes new entries at the end it is popped from
EnqueueAtFront(q, entry) == <<entry>> \o q

\* crawl(), line 232: queue.append((normalized, depth + 1))
Enqueue(q, entry) == Append(q, entry)

\* a limit that counts the page being processed twice
QueueFullOneEarly(cfg, q, vis) == Len(q) + Cardinality(vis) + 1 >= cfg.max_pages

\* crawl(), line 236: the queue-size limit
QueueFull(cfg, q, vis) == Len(q) + Cardinality(vis) >= cfg.max_pages

\* crawl(), lines 230-238: the loop over candidate_links from link i on;
\* st carries queue, queued and the links appended so far.
RECURSIVE AddToQueue(_, _, _, _, _, _, _)
AddToQueue(cfg, links, i, st, vis, base, depth) ==
    IF i > Len(links)
    THEN st
    ELSE LET normalized == normalize_url(links[i])
         IN  IF ShouldCrawlUrl(normalized, base, vis, st.queued)
             THEN LET st2 == [st EXCEPT !.queue  = Enqueue(@, <<normalized, depth + 1>>),
                                        !.queued = @ \cup {normalized},
                                        !.added  = Append(@, normalized)]
                  IN  IF QueueFull(cfg, st2.queue, vis)
                      THEN st2
                      ELSE AddToQueue(cfg, links, i + 1, st2, vis, base, depth)
             ELSE AddToQueue(cfg, links, i + 1,
                             [st EXCEPT !.dups = @ + (IF normalized \in vis \cup st.queued THEN 1 ELSE 0)],
                             vis, base, depth)

CrawledPage(url, success, status_code, content, depth, from_cache) ==
    [url |-> url, success |-> success, status_code |-> status_code,
     content |-> content, depth |-> depth, from_cache |-> from_cache]

\* the fallback for every JavaScript shell
UsesFallbackOnEveryPage(is_first_page, is_spa, use_playwright) ==
    is_spa /\ use_playwright

\* crawl(), line 177: the first page of the crawl is a JavaScript shell and
\* the fallback is enabled
UsesFallback(is_first_page, is_spa, use_playwright) ==
    is_first_page /\ is_spa /\ use_playwright

\* what fetch_with_playwright can do: rendered html, no html, the module
\* is missing, or it raises
PlaywrightOutcomes == {"html", "none", "ImportError", "Exception"}

StartHrefs == {Href(Home, ""), Href(Home, "top")}

\* what the crawled site answers, and the robots.txt its hosts serve
CrawlAnswers == {Http("200", "html"), Http("200", ""), Http("404", "html"),
                 Http("503", "html"), TimeoutErr, ConnErr, Crash, Cached("200", "html")}
CrawlRobots  == {NoParser, Parser({"/page"})}

\* crawl(), lines 139-151
InitCrawl ==
    /\ config \in { Config(mp, md, 1, 0, TRUE, pw) :
                      mp \in 0..MaxPagesBound, md \in -1..MaxDepthBound, pw \in BOOLEAN }
    /\ FetcherInit
    /\ \E h \in StartHrefs :
          /\ base_domain = Url(normalize_url(h).sub, normalize_url(h).dom, "")
          /\ queue = << <<normalize_url(h), 0>> >>
          /\ queued = {normalize_url(h)}
    /\ visited = {}
    /\ pages = << >>
    /\ failed_urls = << >>
    /\ pc = "loop"
    /\ fetch_result = NoResult
    /\ cur = <<Home, 0>>
    /\ fetched = << >>
    /\ renders = 0
    /\ enq = << >>
    /\ dup_links = 0
    /\ unqueued = {}
    /\ page_links = {}
    /\ fallback = NoFallback
    /\ ScoreIdle
    /\ RestIdle

\* line 165 without the test of the content
PageOkIgnoresContent(fr) == fr.success

\* line 165: fetch_result.success and fetch_result.content
PageOk(fr) == fr.success /\ fr.content # ""

\* the while condition with <= for <
LoopGuardOffByOne == queue # << >> /\ Len(pages) <= config.max_pages

\* the while condition without the page budget
LoopGuardNoBudget == queue # << >>

\* the while condition, line 153
LoopGuard == queue # << >> /\ Len(pages) < config.max_pages

\* crawl(), lines 153-163: pop the head of the queue; drop it when it is
\* too deep, else mark it visited and call fetcher.fetch(url).
CrawlPop ==
    /\ pc = "loop"
    /\ LoopGuard
    /\ LET url   == Head(queue)[1]
           depth == Head(queue)[2]
       IN  /\ queue' = Tail(queue)
           /\ cur' = Head(queue)
           /\ IF depth > config.max_depth
              THEN /\ pc' = "loop"
                   /\ UNCHANGED <<visited, fetched, fetcherVars>>
              ELSE /\ visited' = visited \cup {url}
                   /\ fetched' = Append(fetched, url)
                   /\ pc' = "fetch"
                   /\ \E file \in CrawlRobots : FetchBegin(url, file, now)
    /\ page_links' = {}
    /\ fallback' = NoFallback
    /\ UNCHANGED <<base_domain, queued, pages, failed_urls, fetch_result, renders, enq, dup_links, unqueued, scoreVars, restVars>>

\* fetcher.fetch(url) in progress: the session sends the next attempt
CrawlSend ==
    /\ pc = "fetch"
    /\ \E r \in CrawlAnswers : FetchAttempt(r, 0)
    /\ UNCHANGED <<crawlVars, scoreVars, restVars>>

\* crawl(), lines 163-253: fetch() has returned; record the page and, for a
\* successful page above max_depth, enqueue its links.
\*   anchors  the <a href> tags of the parsed (or re-rendered) page
\*   spa      parser.is_javascript_spa(); the step depends on it only
\*            through the call of the fallback
\*   pw       what fetch_with_playwright does if it is called
CrawlProcess ==
    /\ pc = "fetch"
    /\ call.state = "returned"
    /\ fetch_result' = call.result
    /\ LET fr    == call.result
           url   == cur[1]
           depth == cur[2]
       IN  IF fr.raised
           THEN /\ pc' = "raised"
                /\ UNCHANGED <<queue, queued, pages, failed_urls, renders, enq, dup_links, unqueued, page_links, fallback>>
           ELSE IF PageOk(fr)
           THEN \E anchors \in SeqsUpTo(Anchors, MaxLinks),
                   called \in { IF UsesFallback(Len(pages) = 0, spa, config.use_playwright)
                                THEN [spa |-> spa, outcome |-> "called"]
                                ELSE NoFallback : spa \in BOOLEAN },
                   pw \in PlaywrightOutcomes :
                LET render        == called # NoFallback
                    grown         == IF depth < config.max_depth
                                     THEN AddToQueue(config, CandidateLinks(anchors), 1,
                                                     [queue |-> queue, queued |-> queued, added |-> << >>, dups |-> 0],
                                                     visited, base_domain, depth)
                                     ELSE [queue |-> queue, queued |-> queued, added |-> << >>, dups |-> 0]
                IN  /\ render \/ pw = "none"
                    /\ renders' = renders + (IF render THEN 1 ELSE 0)
                    /\ pages' = Append(pages, CrawledPage(url, TRUE, fr.status_code,
                                                          IF render /\ pw = "html" THEN "rendered" ELSE "static",
                                                          depth, fr.from_cache))
                    /\ queue' = grown.queue
                    /\ queued' = grown.queued
                    /\ enq' = grown.added
                    /\ dup_links' = grown.dups
                    /\ unqueued' = (unqueued \cup (IF depth < config.max_depth
                                                    THEN AcceptableLinks(anchors, base_domain)
                                                    ELSE {})) \ grown.queued
                    /\ page_links' = PageLinks(anchors)
                    /\ fallback' = IF render THEN [called EXCEPT !.outcome = pw] ELSE NoFallback
                    /\ pc' = "loop"
                    /\ UNCHANGED failed_urls
           ELSE /\ pages' = Append(pages, CrawledPage(url, FALSE, fr.status_code, "None", depth, FALSE))
                /\ failed_urls' = Append(failed_urls, url)
                /\ enq' = << >>
                /\ dup_links' = 0
                /\ page_links' = {}
                /\ UNCHANGED unqueued
                /\ fallback' = NoFallback
                /\ pc' = "loop"
                /\ UNCHANGED <<queue, queued, renders>>
    /\ UNCHANGED <<base_domain, visited, cur, fetched, fetcherVars, scoreVars, restVars>>

\* crawl(), lines 255-260: the loop condition fails and crawl returns result
CrawlReturn ==
    /\ pc = "loop"
    /\ ~LoopGuard
    /\ pc' = "done"
    /\ UNCHANGED <<base_domain, queue, visited, queued, pages, failed_urls, fetch_result, cur,
                   fetched, renders, enq, dup_links, unqueued, fetcherVars, scoreVars, restVars>>
    /\ page_links' = {}
    /\ fallback' = NoFallback

NextCrawl == CrawlPop \/ CrawlSend \/ CrawlProcess \/ CrawlReturn

SpecCrawl == InitCrawl /\ [][NextCrawl]_vars

\* crawl() runs to its end: every step of the loop is taken when it can be
FairCrawl == SpecCrawl /\ WF_vars(NextCrawl)

(***************************************************************************)
(* Candidate, scoring and FieldResolver                                    *)
(* (extraction/models.py, resolve/scoring.py, resolve/resolver.py)         *)
(*                                                                         *)
(* Weights are counted in tenths, bonuses, scores and confidences in       *)
(* hundredths: 1.0 is Unit as a weight and One as a score.                 *)
(***************************************************************************)
MaxCands    == 3    \* candidates in one field bucket
MaxResolves == 2    \* resolve_* calls on the same candidate objects
MaxCrawled    == 2      \* pages in the crawl result handed to extract()
MaxDownloads  == 3      \* download_and_store calls on one AssetStore
MaxBudget     == 3      \* max_total_asset_bytes ranges over 2..MaxBudget
MaxAssetRetries == 1    \* AssetDownloadConfig.max_retries ranges over 0..MaxAssetRetries

\* 1.0 as a weight (tenths)
Unit == 10
\* 1.0 as a score (hundredths)
One  == Unit * Unit
\* resolver.py:189 "confidence = 0.85  # Base confidence for social links"
SocialConfidence == 85

\* the score without the clamp
ScoreUnclamped(c) == c.source_weight * c.method_weight + c.validator_bonus

\* Candidate.score
Score(c) == Min(One, c.source_weight * c.method_weight + c.validator_bonus)

\* Values: a string is its characters, a list its items.
Str(chars)  == [type |-> "str",  items |-> chars]
List(items) == [type |-> "list", items |-> items]
None        == [type |-> "none", items |-> << >>]

Values == {Str(<<"A", "b">>), Str(<<"a", "b", " ">>), Str(<<"a", " ", " ", "b">>),
           List(<<"b", "a">>), List(<<"a", "b">>)}

\* str.lower() and str.isspace() on the characters in use
Lower(ch)   == IF ch = "A" THEN "a" ELSE IF ch = "B" THEN "b" ELSE ch
IsSpace(ch) == ch = " "
Ord(ch)     == CASE ch = " " -> 0 [] ch = "A" -> 1 [] ch = "B" -> 2
                 [] ch = "a" -> 3 [] ch = "b" -> 4 [] OTHER -> 5

\* " ".join(value.lower().split()): lower-case, drop leading and trailing
\* whitespace, one blank between words.
RECURSIVE JoinWords(_, _, _, _)
JoinWords(chars, i, out, gap) ==
    IF i > Len(chars)
    THEN out
    ELSE IF IsSpace(chars[i])
         THEN JoinWords(chars, i + 1, out, out # << >>)
         ELSE JoinWords(chars, i + 1,
                        (IF gap THEN Append(out, " ") ELSE out) \o <<Lower(chars[i])>>,
                        FALSE)

\* sorted(str(v) for v in value)
SortedItems(items) == SortSeq(items, LAMBDA x, y : Ord(x) < Ord(y))

\* _normalize_value_for_comparison
NormalizeValueForComparison(value) ==
    IF value.type = "str"
    THEN JoinWords(value.items, 1, << >>, FALSE)
    ELSE IF value.type = "list"
         THEN <<"[">> \o SortedItems(value.items) \o <<"]">>
         ELSE <<"None">>

\* a later duplicate that also wins a tie
KeepsNewOnTie(candidate, kept) == Score(candidate) >= Score(kept)

\* scoring.py line 47: the later duplicate replaces the kept one
KeepsNew(candidate, kept) == Score(candidate) > Score(kept)

\* deduplicate_candidates: seen_values as the list of its items, in
\* insertion order, from candidate i on.
RECURSIVE DedupFrom(_, _, _)
DedupFrom(cands, i, seen) ==
    IF i > Len(cands)
    THEN seen
    ELSE LET candidate == cands[i]
             value_key == NormalizeValueForComparison(candidate.value)
             at        == { j \in 1..Len(seen) : seen[j].key = value_key }
         IN  IF at = {}
             THEN DedupFrom(cands, i + 1, Append(seen, [key |-> value_key, cand |-> candidate]))
             ELSE LET j == CHOOSE j \in at : TRUE
                  IN  IF KeepsNew(candidate, seen[j].cand)
                      THEN DedupFrom(cands, i + 1, [seen EXCEPT ![j].cand = candidate])
                      ELSE DedupFrom(cands, i + 1, seen)

deduplicate_candidates(cands) ==
    LET seen == DedupFrom(cands, 1, << >>)
    IN  [j \in 1..Len(seen) |-> seen[j].cand]

\* sorted(candidates, key=score, reverse=True): stable, highest first
RECURSIVE InsertByScore(_, _)
InsertByScore(sorted, c) ==
    IF sorted = << >>
    THEN <<c>>
    ELSE IF Score(Head(sorted)) >= Score(c)
         THEN <<Head(sorted)>> \o InsertByScore(Tail(sorted), c)
         ELSE <<c>> \o sorted

RECURSIVE SortFrom(_, _, _)
SortFrom(cands, i, sorted) ==
    IF i > Len(cands) THEN sorted ELSE SortFrom(cands, i + 1, InsertByScore(sorted, cands[i]))

\* the candidates left in the order they were found
ScoreCandidatesUnsorted(cands) == cands

score_candidates(cands) == SortFrom(cands, 1, << >>)

FieldResult(value, confidence, prov, notes) ==
    [value |-> value, confidence |-> confidence, provenance |-> prov, notes |-> notes]

\* FieldResolver._null_result
NullResult == FieldResult(None, 0, << >>, "not found")

\* the closing lines of every resolve_*: the first candidate wins
WinnerResult(cands) ==
    LET winner == cands[1]
    IN  FieldResult(winner.value, Score(winner), <<winner.prov>>, winner.notes)

\* resolve_text, resolve_logo (and resolve_brand_name on normalized names)
resolve_text(cands) ==
    IF cands = << >>
    THEN NullResult
    ELSE WinnerResult(score_candidates(deduplicate_candidates(cands)))

\* what a validator returns: (is_valid, bonus, notes)
Verdict(valid, bonus, notes) == [valid |-> valid, bonus |-> bonus, notes |-> notes]
Verdicts == {Verdict(FALSE, 0, "invalid format"), Verdict(TRUE, 10, "MX valid")}

\* resolve_email, lines 63-72: the validation loop over the candidate
\* objects.  verdict[i] is what the validator says of candidate i.
Validated(cands, verdict) ==
    [i \in 1..Len(cands) |->
        IF ~verdict[i].valid
        THEN [cands[i] EXCEPT !.source_weight = 0]
        ELSE [cands[i] EXCEPT !.validator_bonus = @ + verdict[i].bonus,
                              !.notes = IF verdict[i].notes # "" THEN verdict[i].notes ELSE @]]

\* resolve_email filtering on the score instead of the source weight
ResolveValidatedByScore(cands) ==
    LET IsValid(c) == Score(c) > 0
        valid      == SelectSeq(cands, IsValid)
    IN  IF valid = << >>
        THEN NullResult
        ELSE WinnerResult(score_candidates(deduplicate_candidates(valid)))

\* resolve_email without the filter of line 75
ResolveValidatedNoFilter(cands) ==
    IF cands = << >>
    THEN NullResult
    ELSE WinnerResult(score_candidates(deduplicate_candidates(cands)))

\* resolve_email, lines 74-90, on the validated candidates
resolve_validated(cands) ==
    LET IsValid(c) == c.source_weight > 0
        valid      == SelectSeq(cands, IsValid)
    IN  IF valid = << >>
        THEN NullResult
        ELSE WinnerResult(score_candidates(deduplicate_candidates(valid)))

RECURSIVE SumScores(_, _)
SumScores(cands, i) == IF i > Len(cands) THEN 0 ELSE Score(cands[i]) + SumScores(cands, i + 1)

\* resolve_images, lines 296-309: the confidence is the average score
resolve_images(cands) ==
    IF cands = << >>
    THEN NullResult
    ELSE LET top_images == score_candidates(cands)
         IN  FieldResult(List(<< >>), SumScores(top_images, 1) \div Len(top_images),
                         <<top_images[1].prov>>, "extracted")

\* resolve_socials, lines 186-198, for one platform
resolve_socials(cands) ==
    IF cands # << >>
    THEN FieldResult(WinnerResult(score_candidates(deduplicate_candidates(cands))).value,
                     SocialConfidence, <<cands[1].prov>>, "found")
    ELSE FieldResult(None, 0, << >>, "found 0 platforms")

(***************************************************************************)
(* SpecScore: one field bucket, resolved MaxResolves times                 *)
(***************************************************************************)
Candidate(value, source_weight, method_weight, prov) ==
    [value |-> value, source_weight |-> source_weight, method_weight |-> method_weight,
     validator_bonus |-> 0, prov |-> prov, notes |-> ""]

\* what the extractors find: spellings of one name with weights 0.5*1.0,
\* 1.0*0.5 (the same score from different weights) and 1.0*1.0, another
\* name, and two orderings of one colour list
Found == {<<Str(<<"A", "b">>), 5, 10>>, <<Str(<<"a", "b", " ">>), 10, 5>>,
          <<Str(<<"a", "b", " ">>), 10, 10>>, <<Str(<<"a", " ", " ", "b">>), 9, 8>>,
          <<List(<<"b", "a">>), 5, 10>>, <<List(<<"a", "b">>), 9, 8>>}

\* a bucket as the extractors fill it; prov tells the candidates apart
Buckets ==
    UNION { { [i \in 1..n |-> Candidate(f[i][1], f[i][2], f[i][3], i)] : f \in [1..n -> Found] } :
              n \in 0..MaxCands }

InitScore ==
    /\ config = Config(20, 2, 1, 3, TRUE, TRUE)
    /\ FetcherInit
    /\ CrawlIdle
    /\ candidates \in Buckets
    /\ dedup_in = << >>
    /\ deduped = << >>
    /\ field_result = [value |-> None, confidence |-> 0, provenance |-> << >>, notes |-> "no call"]
    /\ resolves = 0
    /\ RestIdle

\* resolve_text / resolve_logo / resolve_brand_name
ResolveText ==
    /\ resolves < MaxResolves
    /\ resolves' = resolves + 1
    /\ dedup_in' = candidates
    /\ deduped' = deduplicate_candidates(candidates)
    /\ field_result' = resolve_text(candidates)
    /\ UNCHANGED <<candidates, fetcherVars, crawlVars, restVars>>

\* resolve_email (and resolve_phone, resolve_address, resolve_colors): the
\* validators' verdicts are applied to the candidate objects themselves
ResolveEmail ==
    /\ resolves < MaxResolves
    /\ resolves' = resolves + 1
    /\ \E verdict \in [1..Len(candidates) -> Verdicts] :
          LET after      == Validated(candidates, verdict)
              IsValid(c) == c.source_weight > 0
          IN  /\ candidates' = after
              /\ field_result' = resolve_validated(after)
              /\ IF candidates = << >> \/ SelectSeq(after, IsValid) = << >>
                 THEN UNCHANGED <<dedup_in, deduped>>
                 ELSE /\ dedup_in' = SelectSeq(after, IsValid)
                      /\ deduped' = deduplicate_candidates(SelectSeq(after, IsValid))
    /\ UNCHANGED <<fetcherVars, crawlVars, restVars>>

\* resolve_images
ResolveImages ==
    /\ resolves < MaxResolves
    /\ resolves' = resolves + 1
    /\ field_result' = resolve_images(candidates)
    /\ UNCHANGED <<candidates, dedup_in, deduped, fetcherVars, crawlVars, restVars>>

\* resolve_socials
ResolveSocials ==
    /\ resolves < MaxResolves
    /\ resolves' = resolves + 1
    /\ field_result' = resolve_socials(candidates)
    /\ IF candidates = << >>
       THEN UNCHANGED <<dedup_in, deduped>>
       ELSE /\ dedup_in' = candidates
            /\ deduped' = deduplicate_candidates(candidates)
    /\ UNCHANGED <<candidates, fetcherVars, crawlVars, restVars>>

NextScore == ResolveText \/ ResolveEmail \/ ResolveImages \/ ResolveSocials

SpecScore == InitScore /\ [][NextScore]_vars

(***************************************************************************)
(* TruthExtractor (orchestrator.py), validators (resolve/validators.py)    *)
(* and the resolvers of the field families (resolve/resolver.py)           *)
(***************************************************************************)
\* an address: a dict of its components, "" for a missing one
Dict(street, city, region, postal) ==
    [type |-> "dict", items |-> <<street, city, region, postal>>]

\* EmailValidator.validate: the format test of EMAIL_REGEX on the characters
\* in use, then the MX lookup, which the resolver of the host decides
EmailValidator(value, mx) ==
    IF value.type # "str" \/ "@" \notin Range(value.items)
    THEN Verdict(FALSE, 0, "invalid format")
    ELSE IF mx THEN Verdict(TRUE, 10, "MX valid") ELSE Verdict(TRUE, 0, "MX not found")

\* PhoneValidator.validate: digits (and blanks) parse to a valid number,
\* whose E.164 form is the digits behind "+"
IsDigit(ch) == ch = "5"
E164(value) == Str(<<"+">> \o SelectSeq(value.items, IsDigit))
PhoneValidator(value) ==
    IF /\ value.type = "str"
       /\ \A i \in 1..Len(value.items) : IsDigit(value.items[i]) \/ IsSpace(value.items[i])
       /\ \E i \in 1..Len(value.items) : IsDigit(value.items[i])
    THEN Verdict(TRUE, 10, "landline")
    ELSE Verdict(FALSE, 0, "invalid number")

\* AddressValidator.validate
AddressValidator(value) ==
    LET street == value.items[1]
        city   == value.items[2]
        region == value.items[3]
        postal == value.items[4]
        Has(x) == IF x # "" THEN 1 ELSE 0
        component_count == Has(city) + Has(region) + Has(postal) + Has(street)
        zip_bonus   == IF postal = "55555" THEN 5 ELSE 0
        count_bonus == IF component_count >= 3 THEN 5 ELSE 0
    IN  IF city = "" /\ region = "" /\ postal = ""
        THEN Verdict(FALSE, 0, "insufficient components")
        ELSE Verdict(TRUE, zip_bonus + count_bonus,
                     IF postal = "" THEN "" ELSE IF postal = "55555" THEN "valid zip" ELSE "non-US postal")

\* ColorValidator.validate: every colour is #RRGGBB; "#000000" passes AA
\* against white, "#FFFFFF" against black
IsHex(color) == color \in {"#000000", "#FFFFFF"}
ColorValidator(value) ==
    IF \E i \in 1..Len(value.items) : ~IsHex(value.items[i])
    THEN Verdict(FALSE, 0, "invalid HEX format")
    ELSE IF value.items = << >>
         THEN Verdict(TRUE, 0, "low contrast")
         ELSE Verdict(TRUE, 10, "AA")

\* FieldResolver._normalize_business_name: a legal suffix behind whitespace
\* is cut off the end, then the name is stripped
LegalSuffixes == {"LLC", "Inc."}

RECURSIVE RStrip(_)
RStrip(chars) ==
    IF chars # << >> /\ IsSpace(chars[Len(chars)])
    THEN RStrip(SubSeq(chars, 1, Len(chars) - 1))
    ELSE chars

RECURSIVE LStrip(_)
LStrip(chars) == IF chars # << >> /\ IsSpace(Head(chars)) THEN LStrip(Tail(chars)) ELSE chars

NormalizeBusinessName(value) ==
    LET chars == value.items
        n     == Len(chars)
        cut   == IF n >= 2 /\ chars[n] \in LegalSuffixes /\ IsSpace(chars[n - 1])
                 THEN RStrip(SubSeq(chars, 1, n - 1))
                 ELSE chars
    IN  Str(LStrip(RStrip(cut)))

\* resolve_brand_name, lines 40-42: the names are normalized in place
NormalizedNames(cands) ==
    [i \in 1..Len(cands) |->
        IF cands[i].value.type = "str"
        THEN [cands[i] EXCEPT !.value = NormalizeBusinessName(@)]
        ELSE cands[i]]

\* resolve_phone leaving the value as it was found
PhoneValidatedKeepsValue(cands) ==
    [i \in 1..Len(cands) |->
        LET verdict == PhoneValidator(cands[i].value)
        IN  IF verdict.valid
            THEN [cands[i] EXCEPT !.validator_bonus = @ + verdict.bonus,
                                  !.notes = IF verdict.notes # "" THEN verdict.notes ELSE @]
            ELSE [cands[i] EXCEPT !.source_weight = 0]]

\* resolve_phone, lines 98-107: a valid number is replaced by its E.164 form
PhoneValidated(cands) ==
    [i \in 1..Len(cands) |->
        LET verdict == PhoneValidator(cands[i].value)
        IN  IF verdict.valid
            THEN [cands[i] EXCEPT !.value = E164(@),
                                  !.validator_bonus = @ + verdict.bonus,
                                  !.notes = IF verdict.notes # "" THEN verdict.notes ELSE @]
            ELSE [cands[i] EXCEPT !.source_weight = 0]]

\* resolve_address lines 133-144, resolve_colors lines 221-230: only values
\* of the validator's type are validated
TypeValidated(cands, type) ==
    [i \in 1..Len(cands) |->
        IF cands[i].value.type # type
        THEN cands[i]
        ELSE LET verdict == IF type = "dict"
                            THEN AddressValidator(cands[i].value)
                            ELSE ColorValidator(cands[i].value)
             IN  IF verdict.valid
                 THEN [cands[i] EXCEPT !.validator_bonus = @ + verdict.bonus,
                                       !.notes = IF verdict.notes # "" THEN verdict.notes ELSE @]
                 ELSE [cands[i] EXCEPT !.source_weight = 0]]

\* resolve_address lines 146-161, resolve_colors lines 232-245: the valid
\* candidates are scored, not deduplicated
resolve_scored(cands) ==
    LET IsValid(c) == c.source_weight > 0
        valid      == SelectSeq(cands, IsValid)
    IN  IF valid = << >>
        THEN NullResult
        ELSE WinnerResult(score_candidates(valid))

\* resolve_services
resolve_services(cands) ==
    IF cands = << >> THEN NullResult ELSE WinnerResult(score_candidates(cands))

\* the platforms of _extract_all_candidates, in the order of the dict
PlatformOrder == <<"facebook", "instagram", "linkedin", "x", "youtube", "tiktok", "yelp">>
Platforms     == Range(PlatformOrder)

FoundNotes(found_count) ==
    CASE found_count = 0 -> "found 0 platforms"
      [] found_count = 1 -> "found 1 platforms"
      [] found_count = 2 -> "found 2 platforms"
      [] OTHER           -> "found 3 or more platforms"

RECURSIVE SocialProvenance(_, _)
SocialProvenance(social_candidates, k) ==
    IF k > Len(PlatformOrder)
    THEN << >>
    ELSE LET cands == social_candidates[PlatformOrder[k]]
         IN  (IF cands = << >>
              THEN << >>
              ELSE WinnerResult(score_candidates(deduplicate_candidates(cands))).provenance)
             \o SocialProvenance(social_candidates, k + 1)

\* resolve_socials with the confidence averaged over the platforms
resolve_socials_averaged(social_candidates) ==
    LET socials == [p \in Platforms |->
                      IF social_candidates[p] # << >>
                      THEN WinnerResult(score_candidates(
                               deduplicate_candidates(social_candidates[p]))).value
                      ELSE None]
        found_count == Cardinality({p \in Platforms : socials[p] # None})
    IN  FieldResult(IF found_count > 0 THEN [type |-> "map", items |-> socials] ELSE None,
                    (SocialConfidence * found_count) \div Len(PlatformOrder),
                    << >>, FoundNotes(found_count))

\* resolve_socials on the dict platform -> candidates
resolve_socials_map(social_candidates) ==
    LET socials == [p \in Platforms |->
                      IF social_candidates[p] # << >>
                      THEN WinnerResult(score_candidates(
                               deduplicate_candidates(social_candidates[p]))).value
                      ELSE None]
        found_count    == Cardinality({p \in Platforms : socials[p] # None})
        all_provenance == SocialProvenance(social_candidates, 1)
    IN  FieldResult(IF found_count > 0 THEN [type |-> "map", items |-> socials] ELSE None,
                    IF found_count > 0 THEN SocialConfidence ELSE 0,
                    SubSeq(all_provenance, 1, Min(5, Len(all_provenance))),
                    FoundNotes(found_count))

\* sorted(list(all_services))
RECURSIVE SortedSet(_)
SortedSet(S) ==
    IF S = {}
    THEN << >>
    ELSE LET least == CHOOSE x \in S : \A y \in S : Ord(x) <= Ord(y)
         IN  <<least>> \o SortedSet(S \ {least})

\* the first candidate instead of the best one
BestServiceIsFirst(cands, i, best, best_score) == <<cands[1]>>

\* _merge_service_candidates, lines 260-267: the first candidate of the
\* highest weight product, best_score starting at 0.0 (hundredths here)
RECURSIVE BestService(_, _, _, _)
BestService(cands, i, best, best_score) ==
    IF i > Len(cands)
    THEN best
    ELSE LET c     == cands[i]
             sw    == IF c.source_weight = 0 THEN 5 ELSE c.source_weight
             mw    == IF c.method_weight = 0 THEN 5 ELSE c.method_weight
             score == sw * mw
         IN  IF c.value.type = "list" /\ score > best_score
             THEN BestService(cands, i + 1, <<c>>, score)
             ELSE BestService(cands, i + 1, best, best_score)

\* _merge_service_candidates
MergeServiceCandidates(service_candidates) ==
    LET all_services == UNION { Range(service_candidates[i].value.items) :
                                  i \in { j \in 1..Len(service_candidates) :
                                            service_candidates[j].value.type = "list" } }
        best == BestService(service_candidates, 1, << >>, 0)
    IN  IF Len(service_candidates) > 1 /\ all_services # {} /\ best # << >>
        THEN << [value |-> List(SortedSet(all_services)),
                 source_weight |-> best[1].source_weight,
                 method_weight |-> best[1].method_weight,
                 validator_bonus |-> 0,
                 prov |-> best[1].prov,
                 notes |-> "merged"] >>
        ELSE service_candidates

\* _extract_all_candidates, lines 152-165: the empty buckets
ListFields == {"brand_name", "location", "email", "phone", "services",
               "brand_colors", "logo", "background", "slogan"}
FieldNames == ListFields \cup {"socials"}

EmptyBuckets ==
    [f \in FieldNames |-> IF f = "socials" THEN [p \in Platforms |-> << >>] ELSE << >>]

\* _resolve_fields: every field of the map is assigned.  The candidate
\* objects are also what the buckets hold, so the buckets see the changes
\* the resolvers make to them.
ResolvedBuckets(buckets, mx) ==
    [buckets EXCEPT
        !["brand_name"]   = NormalizedNames(@),
        !["location"]     = TypeValidated(@, "dict"),
        !["email"]        = Validated(@, [i \in 1..Len(@) |-> EmailValidator(@[i].value, mx)]),
        !["phone"]        = PhoneValidated(@),
        !["brand_colors"] = TypeValidated(@, "list")]

ResolveFields(buckets, mx) ==
    LET after == ResolvedBuckets(buckets, mx)
    IN  [f \in FieldNames |->
           CASE f = "brand_name"   -> resolve_text(after[f])
             [] f = "location"     -> resolve_scored(after[f])
             [] f = "email"        -> resolve_validated(after[f])
             [] f = "phone"        -> resolve_validated(after[f])
             [] f = "socials"      -> resolve_socials_map(after[f])
             [] f = "services"     -> resolve_services(after[f])
             [] f = "brand_colors" -> resolve_scored(after[f])
             [] f = "logo"         -> resolve_text(after[f])
             [] f = "background"   -> resolve_text(after[f])
             [] f = "slogan"       -> resolve_text(after[f])]

\* _candidates_to_dict
CandidateEntry(c) ==
    [value |-> c.value, score |-> Score(c), provenance |-> <<c.prov>>, notes |-> c.notes]

\* _candidates_to_dict leaving out the candidates that validation zeroed
CandidatesToDictValidOnly(buckets) ==
    [f \in FieldNames |->
        IF f = "socials"
        THEN [p \in Platforms |->
                [i \in 1..Len(buckets[f][p]) |->
                    [value |-> buckets[f][p][i].value, score |-> Score(buckets[f][p][i]),
                     provenance |-> <<buckets[f][p][i].prov>>]]]
        ELSE LET kept == SelectSeq(buckets[f], LAMBDA c : c.source_weight > 0)
             IN  [i \in 1..Len(kept) |-> CandidateEntry(kept[i])]]

CandidatesToDict(buckets) ==
    [f \in FieldNames |->
        IF f = "socials"
        THEN [p \in Platforms |->
                [i \in 1..Len(buckets[f][p]) |->
                    [value |-> buckets[f][p][i].value, score |-> Score(buckets[f][p][i]),
                     provenance |-> <<buckets[f][p][i].prov>>]]]
        ELSE [i \in 1..Len(buckets[f]) |-> CandidateEntry(buckets[f][i])]]

\* build_truth_record
BuildTruthRecord(crawled, resolved, candidate_dict) ==
    [pages_visited |-> Len(SelectSeq(crawled, LAMBDA p : p.success)),
     fields        |-> resolved,
     candidates    |-> candidate_dict]

(***************************************************************************)
(* SpecExtract: one TruthExtractor.extract() run.  What the crawl returns, *)
(* what each page holds and which extractor raises are the inputs.         *)
(***************************************************************************)
\* the extractor calls of the try block, lines 171-221, in source order
ExtractorCalls == <<"JSONLDExtractor", "BrandNameExtractor", "JSONLDExtractor.contact",
                    "ContactExtractor", "SocialExtractor", "LogoExtractor",
                    "ServicesExtractor", "TextBitsExtractor">>

\* "keyword in page.url.lower()" on the URLs in use: /about and /work hold
\* one of "service", "about", "home", "work"
UrlHasKeyword(url) == url.path \in {"/about", "/work"}

\* lines 207 and 214: the calls that depend on the page
Applies(step, page) ==
    CASE ExtractorCalls[step] = "ServicesExtractor" -> UrlHasKeyword(page.url)
      [] ExtractorCalls[step] = "TextBitsExtractor" -> UrlHasKeyword(page.url) \/ page.depth = 0
      [] OTHER -> TRUE

Find(field, platform, value, sw, mw) ==
    [field |-> field, platform |-> platform, value |-> value,
     source_weight |-> sw, method_weight |-> mw]

\* what the extractors return on the two documents in use, weights in tenths
Docs == {"rich", "poor"}

Finds(doc, step) ==
    IF doc = "rich"
    THEN CASE step = 1 -> <<Find("brand_name", "", Str(<<"A", "b", " ", "LLC">>), 10, 10),
                            Find("location", "", Dict("s", "c", "r", "55555"), 10, 10)>>
           [] step = 2 -> <<Find("brand_name", "", Str(<<"a", "b">>), 9, 8)>>
           [] step = 3 -> <<Find("email", "", Str(<<"a", "@", "b">>), 10, 10),
                            Find("phone", "", Str(<<"5", "5">>), 10, 10),
                            Find("background", "", Str(<<"d">>), 10, 9)>>
           [] step = 4 -> <<Find("email", "", Str(<<"A", "@", "b", " ">>), 9, 7),
                            Find("phone", "", Str(<<"5", " ", "5">>), 9, 7),
                            Find("location", "", Dict("", "c", "", ""), 9, 7)>>
           [] step = 5 -> <<Find("socials", "facebook", Str(<<"f">>), 9, 9),
                            Find("socials", "x", Str(<<"x">>), 9, 9)>>
           [] step = 6 -> <<Find("logo", "", Str(<<"l", "2">>), 9, 10),
                            Find("logo", "", Str(<<"l">>), 9, 10)>>
           [] step = 7 -> <<Find("services", "", List(<<"b", "a">>), 9, 9)>>
           [] OTHER    -> <<Find("background", "", Str(<<"d", " ">>), 8, 7),
                            Find("slogan", "", Str(<<"s">>), 8, 7)>>
    ELSE CASE step = 2 -> <<Find("brand_name", "", Str(<<"b">>), 9, 6)>>
           [] step = 4 -> <<Find("email", "", Str(<<"a", "b">>), 9, 7),
                            Find("phone", "", Str(<<"x">>), 9, 7),
                            Find("location", "", Dict("s", "", "", ""), 9, 7)>>
           [] step = 5 -> <<Find("socials", "facebook", Str(<<"f">>), 9, 9)>>
           [] step = 6 -> <<Find("logo", "", Str(<<"l">>), 6, 10)>>
           [] step = 7 -> <<Find("services", "", List(<<"c", "a">>), 6, 7)>>
           [] OTHER    -> << >>

\* config.extraction.services_max_count: the default and no service at all
ServicesMaxCounts == {0, 8}

\* ServicesExtractor.extract_services, lines 90 and 105: the list of a
\* services candidate is cut to max_services names
CutServices(finds, max_services) ==
    [k \in 1..Len(finds) |->
        IF finds[k].field = "services"
        THEN [finds[k] EXCEPT !.value = List(SubSeq(@.items, 1, Min(max_services, Len(@.items))))]
        ELSE finds[k]]

\* _extract_all_candidates, lines 227-232: the value of the first logo
\* candidate in the order of score_candidates
LogoUrl(logos) ==
    IF logos = << >> THEN None ELSE score_candidates(logos)[1].value

\* what ColorExtractor.extract_colors does on the homepage
ColorOutcomes == {"raises", "none", "valid", "invalid"}
ColorFinds(outcome) ==
    CASE outcome = "valid"   -> <<Find("brand_colors", "", List(<<"#000000", "#FFFFFF">>), 9, 10)>>
      [] outcome = "invalid" -> <<Find("brand_colors", "", List(<<"red">>), 9, 10)>>
      [] OTHER               -> << >>

\* candidates[field].extend(...): the finds become candidates of the buckets
RECURSIVE Extend(_, _, _, _)
Extend(buckets, finds, k, prov) ==
    IF k > Len(finds)
    THEN buckets
    ELSE LET f == finds[k]
             c == Candidate(f.value, f.source_weight, f.method_weight, prov)
         IN  Extend(IF f.field = "socials"
                    THEN [buckets EXCEPT !["socials"][f.platform] = Append(@, c)]
                    ELSE [buckets EXCEPT ![f.field] = Append(@, c)],
                    finds, k + 1, prov)

\* one pass of the try block over a page: the calls before the one that
\* raises (thrower, 0 for none) extend the buckets
RECURSIVE ExtractFromPage(_, _, _, _, _)
ExtractFromPage(buckets, page, doc, step, thrower) ==
    IF step > Len(ExtractorCalls) \/ step = thrower
    THEN buckets
    ELSE ExtractFromPage(IF Applies(step, page)
                         THEN Extend(buckets, CutServices(Finds(doc, step), services_max_count), 1,
                                     [url |-> page.url, path |-> ExtractorCalls[step]])
                         ELSE buckets,
                         page, doc, step + 1, thrower)

\* get_successful_pages without the test of p.success
AllPages(crawled) == crawled

\* crawl_result.get_successful_pages()
SuccessfulPages(crawled) == SelectSeq(crawled, LAMBDA p : p.success)

\* what crawl() may return to extract(): the start page and pages it links
\* to, each fetched with or without success
SitePages == <<[url |-> Home, depth |-> 0], [url |-> About, depth |-> 1],
               [url |-> Page, depth |-> 1], [url |-> Blog, depth |-> 2]>>

\* the same for a crawl that starts at the about page
AboutSitePages == <<[url |-> About, depth |-> 0],
                    [url |-> Url("www", "site.com", "/work"), depth |-> 1]>>

CrawlsOf(site) ==
    UNION { { [i \in 1..n |-> CrawledPage(site[i].url, ok[i],
                                          IF ok[i] THEN "200" ELSE "404",
                                          IF ok[i] THEN "static" ELSE "None",
                                          site[i].depth, FALSE)] : ok \in [1..n -> BOOLEAN] } :
              n \in 0..Min(MaxCrawled, Len(site)) }

CrawlResults == CrawlsOf(SitePages) \cup CrawlsOf(AboutSitePages)

OutputFiles == {"truth.json", "summary.csv", "crawl.json"}

InitExtract ==
    /\ config = Config(20, 2, 1, 3, TRUE, TRUE)
    /\ FetcherInit
    /\ CrawlIdle
    /\ ScoreIdle
    /\ opc = "idle"
    /\ page_i = 0
    /\ services_max_count \in ServicesMaxCounts
    /\ logo_hint = NoHint
    /\ all_candidates = << >>
    /\ appended = << >>
    /\ ran = {}
    /\ threw = {}
    /\ fields = << >>
    /\ truth_record = << >>
    /\ written = {}
    /\ AssetIdle
    /\ RunIdle

\* extract(), lines 61-71: the crawl, and the error when no page succeeded
ExtractCrawl ==
    /\ opc = "idle"
    /\ \E crawled \in CrawlResults :
          /\ pages' = crawled
          /\ failed_urls' = [i \in 1..Len(SelectSeq(crawled, LAMBDA p : ~p.success)) |->
                               SelectSeq(crawled, LAMBDA p : ~p.success)[i].url]
          /\ IF SuccessfulPages(crawled) = << >>
             THEN /\ opc' = "raised"
                  /\ UNCHANGED <<page_i, all_candidates, appended>>
             ELSE /\ opc' = "extract"
                  /\ page_i' = 1
                  /\ all_candidates' = EmptyBuckets
                  /\ appended' = EmptyBuckets
    /\ UNCHANGED <<services_max_count, logo_hint, ran, threw, fields, truth_record, written>>
    /\ UNCHANGED <<base_domain, queue, visited, queued, pc, fetch_result, cur, fetched,
                   renders, enq, dup_links, unqueued, page_links, fallback, fetcherVars, scoreVars, assetVars, runVars>>

\* _extract_all_candidates, lines 167-224: one page of the loop
ExtractPage ==
    /\ opc = "extract"
    /\ page_i <= Len(SuccessfulPages(pages))
    /\ \E doc \in Docs, thrower \in 0..Len(ExtractorCalls) :
          LET page == SuccessfulPages(pages)[page_i]
              done == { s \in 1..Len(ExtractorCalls) :
                          Applies(s, page) /\ (thrower = 0 \/ s < thrower) }
          IN  /\ thrower # 0 => Applies(thrower, page)
              /\ all_candidates' = ExtractFromPage(all_candidates, page, doc, 1, thrower)
              /\ appended' = ExtractFromPage(appended, page, doc, 1, thrower)
              /\ ran' = ran \cup { <<page_i, s>> : s \in done }
              /\ threw' = IF thrower = 0 THEN threw ELSE threw \cup {<<page_i, thrower>>}
    /\ page_i' = page_i + 1
    /\ UNCHANGED <<opc, services_max_count, logo_hint, fields, truth_record, written, fetcherVars, crawlVars, scoreVars, assetVars, runVars>>

\* _extract_all_candidates, lines 226-240, and step 2.5 of extract(): the
\* colours of the homepage, then the merge of the service candidates
ExtractColors ==
    /\ opc = "extract"
    /\ page_i > Len(SuccessfulPages(pages))
    /\ logo_hint' = LogoUrl(all_candidates["logo"])
    /\ \E outcome \in ColorOutcomes :
          LET homepage == SuccessfulPages(pages)[1]
              prov     == [url |-> homepage.url, path |-> "ColorExtractor"]
              found    == Extend(all_candidates, ColorFinds(outcome), 1, prov)
          IN  IF outcome = "raises"
              THEN /\ opc' = "raised"
                   /\ threw' = threw \cup {<<0, 0>>}
                   /\ UNCHANGED <<all_candidates, appended, ran>>
              ELSE /\ opc' = "resolve"
                   /\ all_candidates' = [found EXCEPT !["services"] = MergeServiceCandidates(@)]
                   /\ appended' = Extend(appended, ColorFinds(outcome), 1, prov)
                   /\ ran' = ran \cup {<<0, 0>>}
                   /\ UNCHANGED threw
    /\ UNCHANGED <<page_i, services_max_count, fields, truth_record, written, fetcherVars, crawlVars, scoreVars, assetVars, runVars>>

\* extract(), lines 93-104: _resolve_fields and the truth record
ExtractResolve ==
    /\ opc = "resolve"
    /\ \E mx \in BOOLEAN :
          /\ all_candidates' = ResolvedBuckets(all_candidates, mx)
          /\ fields' = ResolveFields(all_candidates, mx)
          /\ truth_record' = BuildTruthRecord(pages, ResolveFields(all_candidates, mx),
                                              CandidatesToDict(ResolvedBuckets(all_candidates, mx)))
    /\ opc' = "write"
    /\ UNCHANGED <<page_i, services_max_count, logo_hint, appended, ran, threw, written, fetcherVars, crawlVars, scoreVars, assetVars, runVars>>

\* extract(), lines 106-140: the logo download, the rebuilt record, the files
ExtractWrite ==
    /\ opc = "write"
    /\ \E downloaded \in BOOLEAN :
          LET logo   == fields["logo"]
              stored == IF logo.value # None /\ downloaded
                        THEN [fields EXCEPT !["logo"].value = Str(<<"assets/", "logo">>)]
                        ELSE fields
          IN  /\ fields' = stored
              /\ truth_record' = BuildTruthRecord(pages, stored, CandidatesToDict(all_candidates))
    /\ written' = OutputFiles
    /\ opc' = "done"
    /\ UNCHANGED <<page_i, services_max_count, logo_hint, all_candidates, appended, ran, threw, fetcherVars, crawlVars, scoreVars, assetVars, runVars>>

NextExtract == ExtractCrawl \/ ExtractPage \/ ExtractColors \/ ExtractResolve \/ ExtractWrite

SpecExtract == InitExtract /\ [][NextExtract]_vars

(***************************************************************************)
(* AssetStore (backend/export/asset_store.py).  The exporter awaits one    *)
(* download_and_store call after the other (bundle.py line 427).           *)
(***************************************************************************)
AssetUrls == {"https://site.com/a.png", "https://cdn.site.com/a.png"}
PageIds   == {"p1", "p2"}

\* response bodies: what they hold and how long they are
Bytes(id, len) == [id |-> id, len |-> len]
Bodies == {Bytes("pixel", 1), Bytes("photo", 2), Bytes("video", 3)}

\* hashlib.sha256(data).hexdigest(): one digest per content
Sha256(data) ==
    CASE data.id = "pixel"  -> "sha-1f"
      [] data.id = "photo"  -> "sha-e0"
      [] OTHER              -> "sha-47"

\* what client.get does: a response with a status, or an exception
Response(status, content) == [kind |-> "response", status |-> status, content |-> content]
GetRaises(exc) == [kind |-> exc, status |-> "", content |-> Bytes("", 0)]
AssetAnswers ==
    { Response("200", b) : b \in Bodies }
       \cup {Response("503", Bytes("", 0)), Response("404", Bytes("", 0)),
             GetRaises("TimeoutException"), GetRaises("Exception")}

_RETRYABLE_STATUS_CODES == {"500", "502", "503", "504"}

AssetDownloadConfig(max_asset_bytes, max_total_asset_bytes, max_retries) ==
    [max_asset_bytes |-> max_asset_bytes, max_total_asset_bytes |-> max_total_asset_bytes,
     max_retries |-> max_retries]

\* line 75 without the lookup
NeverStored(url, u2h) == FALSE

\* line 75: "url in self._url_to_hash"
AlreadyStored(url, u2h) == url \in DOMAIN u2h

\* lines 78-79 and 121-122: the page id joins referenced_by once
AddReference(entry, page_id) ==
    IF page_id \in Range(entry.referenced_by)
    THEN entry
    ELSE [entry EXCEPT !.referenced_by = Append(@, page_id)]

\* line 101: the per-file limit
FitsFileLimit(cfg, data) == data.len <= cfg.max_asset_bytes

\* line 109 forgetting the bytes to add
FitsBudgetBeforeAdding(cfg, total, data) == total <= cfg.max_total_asset_bytes

\* line 109: the total budget
FitsBudget(cfg, total, data) == total + data.len <= cfg.max_total_asset_bytes

\* _record_skipped
SkippedEntry(url, page_id, reason) ==
    [original_url |-> url, sha256 |-> "", bytes |-> 0, first_seen_on_page_id |-> page_id,
     status |-> "skipped", skip_reason |-> reason, referenced_by |-> <<page_id>>]

\* lines 129-138
DownloadedEntry(url, page_id, sha, data) ==
    [original_url |-> url, sha256 |-> sha, bytes |-> data.len,
     first_seen_on_page_id |-> page_id, status |-> "downloaded", referenced_by |-> <<page_id>>]

NoDownload == [state |-> "none", n |-> 0, url |-> "", page_id |-> "", attempt |-> 0,
               answer |-> GetRaises("none"), returned |-> ""]

InitAssets ==
    /\ config = Config(20, 2, 1, 3, TRUE, TRUE)
    /\ FetcherInit
    /\ CrawlIdle
    /\ ScoreIdle
    /\ OrchIdle
    /\ RunIdle
    /\ asset_config \in { AssetDownloadConfig(2, total, retries) :
                            total \in 2..MaxBudget, retries \in 0..MaxAssetRetries }
    /\ file_data = << >>
    /\ manifest = << >>
    /\ url_to_hash = << >>
    /\ skipped = << >>
    /\ total_bytes = 0
    /\ dl = NoDownload
    /\ gets = << >>
    /\ refs = {}

\* download_and_store, lines 74-93: up to the first await
DownloadBegin ==
    /\ dl.state # "get"
    /\ dl.n < MaxDownloads
    /\ \E url \in AssetUrls, page_id \in PageIds :
          LET this == [NoDownload EXCEPT !.n = dl.n + 1, !.url = url, !.page_id = page_id]
          IN  IF AlreadyStored(url, url_to_hash)
              THEN LET sha == url_to_hash[url]
                   IN  /\ manifest' = [manifest EXCEPT ![sha] = AddReference(@, page_id)]
                       /\ dl' = [this EXCEPT !.state = "returned", !.returned = sha]
                       /\ refs' = refs \cup {<<url, page_id>>}
                       /\ UNCHANGED skipped
              ELSE IF total_bytes >= asset_config.max_total_asset_bytes
                   THEN /\ skipped' = Append(skipped, SkippedEntry(url, page_id, "total_budget_exhausted"))
                        /\ dl' = [this EXCEPT !.state = "returned"]
                        /\ UNCHANGED <<manifest, refs>>
                   ELSE /\ dl' = [this EXCEPT !.state = "get", !.attempt = 1]
                        /\ UNCHANGED <<manifest, skipped, refs>>
    /\ UNCHANGED <<asset_config, file_data, url_to_hash, total_bytes, gets>>
    /\ UNCHANGED <<fetcherVars, crawlVars, scoreVars, orchVars, runVars>>

\* _fetch_with_retry, one client.get, and lines 97-150 once it returns
DownloadAttempt ==
    /\ dl.state = "get"
    /\ \E answer \in AssetAnswers :
          LET url     == dl.url
              page_id == dl.page_id
              data    == answer.content
              sha     == Sha256(data)
              Skip(reason) ==
                  /\ skipped' = Append(skipped, SkippedEntry(url, page_id, reason))
                  /\ dl' = [dl EXCEPT !.state = "returned", !.answer = answer]
                  /\ UNCHANGED <<file_data, manifest, url_to_hash, total_bytes, refs>>
          IN  /\ gets' = Append(gets, url)
              /\ IF answer.kind = "response" /\ answer.status = "200"
                 THEN IF ~FitsFileLimit(asset_config, data)
                      THEN Skip("exceeds_max_asset_bytes")
                      ELSE IF ~FitsBudget(asset_config, total_bytes, data)
                           THEN Skip("total_budget_exhausted")
                           ELSE IF sha \in DOMAIN manifest
                                THEN /\ url_to_hash' = (url :> sha) @@ url_to_hash
                                     /\ manifest' = [manifest EXCEPT ![sha] = AddReference(@, page_id)]
                                     /\ dl' = [dl EXCEPT !.state = "returned", !.answer = answer,
                                                         !.returned = sha]
                                     /\ refs' = refs \cup {<<url, page_id>>}
                                     /\ UNCHANGED <<file_data, skipped, total_bytes>>
                                ELSE /\ file_data' = (sha :> data) @@ file_data
                                     /\ manifest' = (sha :> DownloadedEntry(url, page_id, sha, data)) @@ manifest
                                     /\ url_to_hash' = (url :> sha) @@ url_to_hash
                                     /\ total_bytes' = total_bytes + data.len
                                     /\ dl' = [dl EXCEPT !.state = "returned", !.answer = answer,
                                                         !.returned = sha]
                                     /\ refs' = refs \cup {<<url, page_id>>}
                                     /\ UNCHANGED skipped
                 ELSE IF \/ answer.kind = "TimeoutException"
                         \/ answer.kind = "response" /\ answer.status \in _RETRYABLE_STATUS_CODES
                      THEN IF dl.attempt < 1 + asset_config.max_retries
                           THEN /\ dl' = [dl EXCEPT !.attempt = @ + 1, !.answer = answer]
                                /\ UNCHANGED <<file_data, manifest, url_to_hash, skipped,
                                               total_bytes, refs>>
                           ELSE Skip("retries_exhausted")
                      ELSE IF answer.kind = "response"
                           THEN Skip("http_error")
                           ELSE Skip("error")
    /\ UNCHANGED asset_config
    /\ UNCHANGED <<fetcherVars, crawlVars, scoreVars, orchVars, runVars>>

NextAssets == DownloadBegin \/ DownloadAttempt

SpecAssets == InitAssets /\ [][NextAssets]_vars

(***************************************************************************)
(* RunManager and RunStore (src/backend/crawl/runner.py,                   *)
(* src/backend/storage/runs.py)                                            *)
(*                                                                         *)
(* One run.  The coroutines of the event loop interleave at their awaits:  *)
(* work(url) is one step up to "await fetcher.fetch" and one step from the *)
(* response on; the synchronous RunStore methods are single steps.  The    *)
(* Frontier (crawl/frontier.py) is a FIFO of unseen URLs with a page       *)
(* budget, as RunManager uses it.  The confirmation store is left out.     *)
(***************************************************************************)
MaxRunPages == 3    \* req.maxPages ranges over 1..MaxRunPages
MaxBatch    == 2    \* settings.GLOBAL_CONCURRENCY

\* the pages the site serves to the run, with the links extract_html finds
RunLinks(u) ==
    IF u = Home THEN <<About, Page>> ELSE IF u = About THEN <<Home>> ELSE << >>

\* extract_html(resp, run_id) of the page at u
Doc(u) == [pageId |-> u.path, type |-> "HTML", links |-> RunLinks(u)]

\* create_mock_data, lines 75-136
MockPages ==
    <<[pageId |-> "home_page", type |-> "HTML", links |-> << >>],
      [pageId |-> "services_page", type |-> "HTML", links |-> << >>]>>

DocIds(docs) == [i \in 1..Len(docs) |-> docs[i].pageId]

\* Frontier(url, max_pages)
FrontierNew(url, max_pages) ==
    [start_url |-> url, queue |-> <<url>>, seen |-> {url}, visited |-> 0, max_pages |-> max_pages]

\* frontier.done()
FrontierDone(f) == f.queue = << >> \/ f.visited >= f.max_pages

\* frontier.next_batch(n): the URLs handed out and the frontier left
NextBatch(f, n) ==
    LET k == Min(n, Min(Len(f.queue), f.max_pages - f.visited))
    IN  [batch    |-> { f.queue[i] : i \in 1..k },
         frontier |-> [f EXCEPT !.queue = SubSeq(@, k + 1, Len(@)), !.visited = @ + k]]

\* frontier.enqueue(url) for every link of a document
RECURSIVE FrontierEnqueue(_, _)
FrontierEnqueue(f, links) ==
    IF links = << >>
    THEN f
    ELSE FrontierEnqueue(IF Head(links) \in f.seen
                         THEN f
                         ELSE [f EXCEPT !.queue = Append(@, Head(links)),
                                        !.seen = @ \cup {Head(links)}],
                         Tail(links))

\* RunStore.__init__, lines 23-36
StoreInit == [pages_file |-> << >>,
              meta_file  |-> [NoMeta EXCEPT !.status = "running"]]

\* RunStore.save_doc
save_doc(store, doc) == [store EXCEPT !.pages_file = Append(@, doc)]

\* RunStore.log_error
log_error(store, url) == [store EXCEPT !.meta_file.errors = Append(@, url)]

\* RunStore.finalize at time t
finalize(store, t) ==
    [store EXCEPT !.meta_file.status = "completed", !.meta_file.completed_at = t]

\* RunStore.create_mock_data at time t
create_mock_data(store, t) ==
    [pages_file |-> MockPages,
     meta_file  |-> [store.meta_file EXCEPT !.status = "completed", !.completed_at = t,
                                            !.pages = DocIds(MockPages), !.errors = << >>]]

\* list_pages and get_page, lines 164-172 and 200-208: the store after the
\* pages were loaded
LoadPages(store, t) ==
    IF store.pages_file = << >> THEN create_mock_data(store, t) ELSE store

\* time.time(): the clock moves on with every write of completed_at
RunTime == run_log.clock + 1

\* the history after the store was written at RunTime, or left alone
Ticked(log, store) ==
    IF store.meta_file.completed_at = run_store.meta_file.completed_at
    THEN log
    ELSE [log EXCEPT !.clock = @ + 1]

Reply(op, value) == [op |-> op, value |-> value]

InitRun ==
    /\ config = Config(20, 2, 1, 3, TRUE, TRUE)
    /\ FetcherInit
    /\ CrawlIdle
    /\ ScoreIdle
    /\ OrchIdle
    /\ AssetIdle
    /\ RunIdle

\* RunManager.start(req)
RunStart ==
    /\ ~run_log.started
    /\ \E max_pages \in 1..MaxRunPages, url \in {Home, About} :
          run_frontier' = FrontierNew(url, max_pages)
    /\ run_store' = StoreInit
    /\ run_registry' = {"run"}
    /\ worker' = [pc |-> "loop", work |-> {}]
    /\ run_log' = [run_log EXCEPT !.started = TRUE, !.reply = Reply("start", <<"run">>)]
    /\ UNCHANGED <<fetcherVars, crawlVars, scoreVars, orchVars, assetVars>>

\* _worker_loop, lines 89-92: the while test; the next batch is gathered or
\* the store is finalized and the task ends
WorkerLoop ==
    /\ worker.pc = "loop"
    /\ IF FrontierDone(run_frontier)
       THEN /\ run_store' = finalize(run_store, RunTime)
            /\ worker' = [pc |-> "ended", work |-> {}]
            /\ run_log' = [run_log EXCEPT !.finalizes = @ + 1, !.clock = @ + 1]
            /\ UNCHANGED run_frontier
       ELSE LET next == NextBatch(run_frontier, MaxBatch)
            IN  /\ run_frontier' = next.frontier
                /\ worker' = [pc |-> "gather",
                              work |-> { [url |-> u, stage |-> "ready"] : u \in next.batch }]
                /\ UNCHANGED <<run_store, run_log>>
    /\ UNCHANGED <<run_registry, fetcherVars, crawlVars, scoreVars, orchVars, assetVars>>

\* work(url), lines 41-42: the semaphore is taken and the fetch is sent
WorkFetch ==
    /\ worker.pc = "gather"
    /\ \E w \in worker.work :
          /\ w.stage = "ready"
          /\ worker' = [worker EXCEPT !.work = (@ \ {w}) \cup {[w EXCEPT !.stage = "fetching"]}]
          /\ run_log' = [run_log EXCEPT !.fetches = Append(@, w.url)]
    /\ UNCHANGED <<run_registry, run_frontier, run_store, fetcherVars, crawlVars, scoreVars,
                   orchVars, assetVars>>

\* work(url), lines 43-88: the fetch has answered; the error is logged, or
\* the document is saved and its links are enqueued.  gather returns when the
\* last work() of the batch has.
WorkStore ==
    /\ worker.pc = "gather"
    /\ \E w \in worker.work, resp \in {"None", "html"} :
          /\ w.stage = "fetching"
          /\ worker' = [pc   |-> IF worker.work = {w} THEN "loop" ELSE "gather",
                        work |-> worker.work \ {w}]
          /\ IF resp = "None"
             THEN /\ run_store' = log_error(run_store, w.url)
                  /\ UNCHANGED <<run_frontier, run_log>>
             ELSE /\ run_store' = save_doc(run_store, Doc(w.url))
                  /\ run_frontier' = FrontierEnqueue(run_frontier, Doc(w.url).links)
                  /\ run_log' = [run_log EXCEPT !.saved = Append(@, Doc(w.url))]
    /\ UNCHANGED <<run_registry, fetcherVars, crawlVars, scoreVars, orchVars, assetVars>>

\* RunManager.stop(run_id)
RunStop ==
    /\ run_log.started
    /\ IF "run" \in run_registry
       THEN /\ run_registry' = run_registry \ {"run"}
            /\ run_store' = finalize(run_store, RunTime)
            /\ run_log' = [run_log EXCEPT !.stopped = TRUE, !.finalizes = @ + 1, !.clock = @ + 1,
                                          !.reply = Reply("stop", <<"True">>)]
       ELSE /\ run_log' = [run_log EXCEPT !.reply = Reply("stop", <<"False">>)]
            /\ UNCHANGED <<run_registry, run_store>>
    /\ UNCHANGED <<run_frontier, worker, fetcherVars, crawlVars, scoreVars, orchVars, assetVars>>

\* RunManager.progress(run_id)
RunProgress ==
    /\ run_log.started
    /\ run_log' = [run_log EXCEPT !.reply =
                       Reply("progress", IF "run" \in run_registry
                                         THEN <<"snapshot">> ELSE <<"None">>)]
    /\ UNCHANGED <<run_registry, run_frontier, run_store, worker, fetcherVars, crawlVars,
                   scoreVars, orchVars, assetVars>>

\* RunStore.list_pages(type_filter=...) with the default page and size
ListPages ==
    /\ run_log.started
    /\ \E type_filter \in {"", "BIN"} :
          LET store == LoadPages(run_store, RunTime)
              Shown(d) == type_filter = "" \/ d.type = type_filter
          IN  /\ run_store' = store
              /\ run_log' = [Ticked(run_log, store) EXCEPT !.reply =
                                 Reply("list_pages", DocIds(SelectSeq(store.pages_file, Shown)))]
    /\ UNCHANGED <<run_registry, run_frontier, worker, fetcherVars, crawlVars, scoreVars,
                   orchVars, assetVars>>

\* RunStore.get_page(page_id)
GetPage ==
    /\ run_log.started
    /\ \E page_id \in {"/", "home_page"} :
          LET store == LoadPages(run_store, RunTime)
              Hit(d) == d.pageId = page_id
              hits  == SelectSeq(store.pages_file, Hit)
          IN  /\ run_store' = store
              /\ run_log' = [Ticked(run_log, store) EXCEPT !.reply =
                                 Reply("get_page", IF hits = << >> THEN <<"None">>
                                                   ELSE <<hits[1].pageId>>)]
    /\ UNCHANGED <<run_registry, run_frontier, worker, fetcherVars, crawlVars, scoreVars,
                   orchVars, assetVars>>

NextRun ==
    \/ RunStart \/ WorkerLoop \/ WorkFetch \/ WorkStore
    \/ RunStop \/ RunProgress \/ ListPages \/ GetPage

SpecRun == InitRun /\ [][NextRun]_vars

(***************************************************************************)
(* Properties of WebCrawler.crawl (SpecCrawl, FairCrawl)                   *)
(***************************************************************************)
PageUrls == [i \in 1..Len(pages) |-> pages[i].url]
QueueUrls == [i \in 1..Len(queue) |-> queue[i][1]]
NoDuplicates(seq) == \A i, j \in 1..Len(seq) : i # j => seq[i] # seq[j]

\* C1: at every state of crawl() and when it returns, result.pages holds at
\* most max_pages pages and every page in it has depth <= max_depth.
C1_PagesWithinBudgets ==
    /\ Len(pages) <= config.max_pages
    /\ \A i \in 1..Len(pages) : pages[i].depth <= config.max_depth

\* C1 witness: crawl() returned with the page budget used up and a page
\* at the deepest level allowed.
C1_Witness ==
    /\ pc = "done"
    /\ Len(pages) = config.max_pages
    /\ config.max_pages >= 2
    /\ \E i \in 1..Len(pages) : pages[i].depth = config.max_depth /\ pages[i].depth >= 1

\* C2: no two pages of one crawl have the same normalized URL; a URL that is
\* visited or queued is never enqueued again, so no URL is fetched twice.
C2_OnePagePerUrl ==
    /\ \A i, j \in 1..Len(pages) :
          i # j => ~(/\ pages[i].url.sub = pages[j].url.sub
                     /\ pages[i].url.dom = pages[j].url.dom
                     /\ pages[i].url.path = pages[j].url.path)
    /\ NoDuplicates(fetched)
    /\ NoDuplicates(QueueUrls)
    /\ Range(QueueUrls) \cap visited = {}
    /\ Range(QueueUrls) \subseteq queued

\* C2 witness: the page processed last linked to a URL that was already
\* visited or queued, and the crawl went on to return several pages.
C2_Witness ==
    /\ pc = "done"
    /\ Len(pages) >= 2
    /\ dup_links > 0

\* C3: every fetch issued by crawl() is followed by exactly one page for that
\* URL; failed_urls is the URLs of the failed pages in order; a failed page
\* (a 200 response with empty content included) enqueues no links.
FailedPageUrls ==
    LET Failed(p) == ~p.success
        failed    == SelectSeq(pages, Failed)
    IN  [i \in 1..Len(failed) |-> failed[i].url]

C3_OnePagePerFetch ==
    /\ [](/\ pc \in {"loop", "done"} => PageUrls = fetched
          /\ pc = "fetch" => /\ Len(fetched) = Len(pages) + 1
                             /\ PageUrls = SubSeq(fetched, 1, Len(pages))
          /\ failed_urls = FailedPageUrls)
    /\ [][(pc = "fetch" /\ pc' = "loop" /\ (~call.result.success \/ call.result.content = ""))
             => /\ queue' = queue
                /\ queued' = queued
                /\ ~pages'[Len(pages')].success
                /\ failed_urls' = Append(failed_urls, cur[1])]_vars

\* C3 witness: a crawl that recorded a successful page, a page that failed
\* with status 200 and no content, and another failed page.
C3_Witness ==
    /\ pc = "done"
    /\ Len(failed_urls) >= 2
    /\ \E i \in 1..Len(pages) : pages[i].success
    /\ \E i \in 1..Len(pages) : ~pages[i].success /\ pages[i].status_code = "200"

\* C4: crawl() terminates after at most max_pages fetches, with
\* len(pages) = max_pages or an empty queue; an entry deeper than max_depth
\* is dropped without a fetch.
C4_Terminates ==
    /\ <>(pc = "done")
    /\ [](Len(fetched) <= config.max_pages)
    /\ [](pc = "done" => Len(pages) = config.max_pages \/ queue = << >>)
    /\ [][(pc = "loop" /\ LoopGuard /\ Head(queue)[2] > config.max_depth)
             => fetched' = fetched /\ pages' = pages /\ stats' = stats]_vars

\* C4 witness: the crawl of a cyclic site ended by the page budget with
\* links still queued.
C4_Witness ==
    /\ pc = "done"
    /\ config.max_pages >= 2
    /\ Len(fetched) = config.max_pages
    /\ queue # << >>
    /\ dup_links > 0

(***************************************************************************)
(* Properties of WebFetcher.fetch (SpecFetch, SpecRate, SpecCrawl)         *)
(***************************************************************************)
\* robots.txt of the url's host was read and disallows the url
Disallowed(parsers, url) ==
    /\ parsers[Host(url)].state = "loaded"
    /\ url.path \in parsers[Host(url)].disallow

\* C5: with respect_robots on and the URL disallowed by robots.txt, fetch
\* returns the robots-blocked failure, sends no HTTP GET and leaves
\* last_request_time unchanged.
C5_RobotsBlockSendsNothing ==
    [][(/\ call'.n = call.n + 1
        /\ config.respect_robots
        /\ Disallowed(robots_parsers', call'.url))
          => /\ call'.state = "returned"
             /\ ~call'.result.success
             /\ call'.result.error = "Blocked by robots.txt"
             /\ call'.sent = 0
             /\ sends' = sends
             /\ last_request_time' = last_request_time
             /\ stamps' = stamps]_vars

\* C5 witness: a fetch that sent a request and stamped the rate limiter was
\* followed by a fetch that robots.txt refused.
C5_Witness ==
    /\ call.n = 2
    /\ call.blocked
    /\ config.respect_robots
    /\ Disallowed(robots_parsers, call.url)
    /\ Len(sends) >= 1
    /\ last_request_time = stamps[1]

\* C6: fetch never raises, whatever the HTTP request does; it returns a
\* FetchResult that is successful only for a final status 200, and after a
\* failed fetch the crawl loop goes on with the queue as it was.
C6_FetchNeverRaises ==
    /\ [](/\ pc # "raised"
          /\ call.state = "returned"
                => /\ ~call.result.raised
                   /\ call.result.success
                         => /\ call.result.status_code = "200"
                            /\ call.answers[Len(call.answers)].code = "200")
    /\ [][(pc = "fetch" /\ call.state = "returned" /\ ~call.result.success)
             => pc' = "loop" /\ queue' = queue]_vars

\* C6 witness: the fetch of the last page ended in an unexpected exception,
\* the page is recorded as failed and the loop has more of the queue to do.
C6_Witness ==
    /\ pc = "loop"
    /\ LoopGuard
    /\ call.result.error = "Exception"
    /\ Len(pages) >= 1
    /\ ~pages[Len(pages)].success

\* C7: within one fetch, an answer with status 429/500/502/503/504 is sent
\* again while fewer than retry_attempts retries were made, any other 4xx or
\* a successful response ends the call at once; 503, 503, 200 with
\* retry_attempts >= 2 yields success, status 200, from_cache false.
IsForced(r) == r.kind = "http" /\ r.code \in {"429", "500", "502", "503", "504"}
IsFinalStatus(r) == r.kind = "http" /\ r.code \in {"200", "404"}

C7_RetryPolicy ==
    /\ call.sent <= config.retry_attempts + 1
    /\ \A i \in 1..Len(call.answers) :
          /\ (IsForced(call.answers[i]) /\ i <= config.retry_attempts)
                => (call.state = "get" /\ call.attempt > i) \/ Len(call.answers) > i
          /\ (IsForced(call.answers[i]) /\ i > config.retry_attempts)
                => call.state = "returned" /\ ~call.result.success /\ i = Len(call.answers)
          /\ IsFinalStatus(call.answers[i])
                => call.state = "returned" /\ i = Len(call.answers) /\ call.sent = i
    /\ (/\ config.retry_attempts >= 2
        /\ call.answers = <<Http("503", "html"), Http("503", "html"), Http("200", "html")>>)
          => /\ call.state = "returned"
             /\ call.result.success
             /\ call.result.status_code = "200"
             /\ ~call.result.from_cache
             /\ call.sent = 3

\* C7 witness: a URL answered 503, 503, 200 and the fetch succeeded.
C7_Witness ==
    /\ call.state = "returned"
    /\ call.answers = <<Http("503", "html"), Http("503", "html"), Http("200", "html")>>
    /\ call.result.success
    /\ ~call.result.from_cache

\* C8 as stated: any two successive HTTP requests of one fetcher, retries
\* included, are at least rate_limit_delay apart.
C8_AllRequestsSpaced ==
    \A i \in 1..(Len(sends) - 1) : sends[i + 1] - sends[i] >= config.rate_limit_delay

\* C8 amended: the rate limiter is passed once per fetch() call that
\* robots.txt admits; the timestamps it takes are at least rate_limit_delay
\* apart and the first request of the call is issued at that timestamp.
C8_CallsSpaced ==
    /\ \A i \in 1..(Len(stamps) - 1) : stamps[i + 1] - stamps[i] >= config.rate_limit_delay
    /\ (call.state = "get" /\ call.attempt = 1) => now = last_request_time
    /\ stamps # << >> => last_request_time = stamps[Len(stamps)]

\* C8 witness: two calls passed the rate limiter exactly rate_limit_delay
\* apart although the first one re-sent its request at once.
C8_Witness ==
    /\ Len(stamps) = 2
    /\ stamps[2] - stamps[1] = config.rate_limit_delay
    /\ Len(sends) >= 3
    /\ sends[2] - sends[1] < config.rate_limit_delay

(***************************************************************************)
(* Properties of scoring and resolution (SpecScore)                        *)
(***************************************************************************)
\* C9: with source_weight and method_weight in [0,1] and validator_bonus >= 0,
\* also after several validations added to it, every candidate's score lies
\* in [0,1] and so does the confidence of every FieldResult of the resolver.
C9_ScoresClamped ==
    /\ \A i \in 1..Len(candidates) :
          (/\ candidates[i].source_weight \in 0..Unit
           /\ candidates[i].method_weight \in 0..Unit
           /\ candidates[i].validator_bonus >= 0)
             => Score(candidates[i]) \in 0..One
    /\ field_result.confidence \in 0..One

\* C9 witness: a candidate validated twice, whose weighted sum with the
\* accumulated bonus is above 1, won with confidence 1.
C9_Witness ==
    /\ resolves = 2
    /\ field_result.confidence = One
    /\ \E i \in 1..Len(candidates) :
          /\ candidates[i].validator_bonus = 20
          /\ candidates[i].source_weight * candidates[i].method_weight
                + candidates[i].validator_bonus > One
          /\ field_result.provenance = <<candidates[i].prov>>

Key(c) == NormalizeValueForComparison(c.value)

\* C10: deduplicate_candidates returns at most as many candidates as it was
\* given, exactly one per normalized value of the input, and for each value
\* the first of the input's candidates with the highest score.
C10_DedupKeepsBest ==
    /\ Len(deduped) <= Len(dedup_in)
    /\ \A i, j \in 1..Len(deduped) : Key(deduped[i]) = Key(deduped[j]) => i = j
    /\ {Key(deduped[i]) : i \in 1..Len(deduped)} = {Key(dedup_in[j]) : j \in 1..Len(dedup_in)}
    /\ \A i \in 1..Len(deduped) :
          \E k \in 1..Len(dedup_in) :
             /\ dedup_in[k] = deduped[i]
             /\ \A j \in 1..Len(dedup_in) :
                   Key(dedup_in[j]) = Key(deduped[i])
                      => /\ Score(dedup_in[j]) <= Score(deduped[i])
                         /\ Score(dedup_in[j]) = Score(deduped[i]) => k <= j

\* C10 witness: the survivor of a value replaced an earlier, lower candidate
\* and held against a later candidate of the same score.
C10_Witness ==
    /\ Len(deduped) < Len(dedup_in)
    /\ \E i \in 1..Len(deduped), k \in 1..Len(dedup_in) :
          /\ dedup_in[k] = deduped[i]
          /\ \E j \in 1..(k - 1) :
                /\ Key(dedup_in[j]) = Key(deduped[i])
                /\ Score(dedup_in[j]) < Score(deduped[i])
          /\ \E j \in (k + 1)..Len(dedup_in) :
                /\ Key(dedup_in[j]) = Key(deduped[i])
                /\ Score(dedup_in[j]) = Score(deduped[i])
                /\ dedup_in[j].value # deduped[i].value

(***************************************************************************)
(* Properties of TruthExtractor.extract and the resolvers (SpecExtract)    *)
(***************************************************************************)
\* the bucket of a field holds no candidate that its resolver accepts: it is
\* empty, or every candidate fails the validator of the field
NoValidCandidate(f) ==
    CASE f = "socials"      -> \A p \in Platforms : appended[f][p] = << >>
      [] f = "email"        -> \A i \in 1..Len(appended[f]) :
                                  ~EmailValidator(appended[f][i].value, TRUE).valid
      [] f = "phone"        -> \A i \in 1..Len(appended[f]) :
                                  ~PhoneValidator(appended[f][i].value).valid
      [] f = "location"     -> \A i \in 1..Len(appended[f]) :
                                  /\ appended[f][i].value.type = "dict"
                                  /\ ~AddressValidator(appended[f][i].value).valid
      [] f = "brand_colors" -> \A i \in 1..Len(appended[f]) :
                                  /\ appended[f][i].value.type = "list"
                                  /\ ~ColorValidator(appended[f][i].value).valid
      [] OTHER              -> appended[f] = << >>

Resolved == opc \in {"write", "done"}

\* C11 as stated: every field whose bucket holds no valid candidate resolves
\* to value None, confidence 0.0, notes "not found", and is in the field map.
C11_NullResultEverywhere ==
    Resolved =>
       \A f \in FieldNames :
          /\ f \in DOMAIN fields
          /\ NoValidCandidate(f) => fields[f] = FieldResult(None, 0, << >>, "not found")

\* C11 amended: every field is in the resolved field map; a field whose
\* bucket holds no valid candidate resolves to value None and confidence
\* 0.0, with notes "not found" for every family but socials, whose notes
\* are "found 0 platforms".
C11_NullResult ==
    Resolved =>
       /\ DOMAIN fields = FieldNames
       /\ \A f \in FieldNames :
             NoValidCandidate(f) =>
                /\ fields[f].value = None
                /\ fields[f].confidence = 0
                /\ fields[f].provenance = << >>
                /\ fields[f].notes = IF f = "socials" THEN "found 0 platforms" ELSE "not found"

\* C11 witness: a run in which the only e-mail found was malformed, no logo
\* and no social link was found, and the brand name was resolved.
C11_Witness ==
    /\ opc = "done"
    /\ appended["email"] # << >>
    /\ fields["email"].value = None
    /\ appended["logo"] = << >>
    /\ fields["logo"].notes = "not found"
    /\ fields["socials"].value = None
    /\ fields["brand_name"].value # None

\* the candidate whose value the last FieldResult carries has a positive
\* source weight (in SpecScore the provenance is the candidate's position)
WinnerWeightPositive ==
    field_result.value # None => candidates[field_result.provenance[1]].source_weight > 0

C13_ExtractorErrorsContained ==
    /\ opc = "raised" => SuccessfulPages(pages) = << >>
    /\ opc \in {"resolve", "write", "done"} =>
          \A i \in 1..Len(SuccessfulPages(pages)), s \in 1..Len(ExtractorCalls) :
             (Applies(s, SuccessfulPages(pages)[i]) /\ <<i, s>> \notin threw)
                => <<i, s>> \in ran
    /\ opc = "done" => truth_record # << >>

\* C14: when the crawl yields no successful page, extract() raises before
\* any extraction, resolution or writing: no extractor runs, no field is
\* resolved, no truth record is built and no output file is written.
C14_NoPagesIsFatal ==
    (opc # "idle" /\ \A i \in 1..Len(pages) : ~pages[i].success) =>
       /\ opc = "raised"
       /\ ran = {} /\ threw = {}
       /\ all_candidates = << >>
       /\ fields = << >>
       /\ truth_record = << >>
       /\ written = {}

\* C14 witness: the crawl returned pages, all of them failed, and extract()
\* raised with nothing written.
C14_Witness ==
    /\ opc = "raised"
    /\ Len(pages) >= 2
    /\ \A i \in 1..Len(pages) : ~pages[i].success
    /\ Len(failed_urls) = Len(pages)
    /\ written = {}

\* the value a candidate carries once its field is resolved: brand names
\* lose their legal suffix, valid phone numbers are in E.164
ValueAfterResolution(f, value) ==
    CASE f = "brand_name" /\ value.type = "str"    -> NormalizeBusinessName(value)
      [] f = "phone" /\ PhoneValidator(value).valid -> E164(value)
      [] OTHER                                      -> value

\* the transparency block of field f lists the candidates the extractors
\* appended to the bucket, one entry each, in order
SameCandidates(f) ==
    LET entries == truth_record.candidates[f]
    IN  /\ Len(entries) = Len(appended[f])
        /\ \A i \in 1..Len(entries) :
              /\ entries[i].provenance = <<appended[f][i].prov>>
              /\ entries[i].value = ValueAfterResolution(f, appended[f][i].value)
              /\ entries[i].score = Score(all_candidates[f][i])
              /\ all_candidates[f][i].method_weight = appended[f][i].method_weight

SameSocials ==
    \A p \in Platforms :
       LET entries == truth_record.candidates["socials"][p]
       IN  /\ Len(entries) = Len(appended["socials"][p])
           /\ \A i \in 1..Len(entries) :
                 /\ entries[i].provenance = <<appended["socials"][p][i].prov>>
                 /\ entries[i].value = appended["socials"][p][i].value
                 /\ entries[i].score = Score(appended["socials"][p][i])

\* C15 as stated: every candidate an extractor appended to a bucket is in
\* truth_record["candidates"] of its field, none dropped or replaced.
C15_AllCandidatesKept ==
    Resolved => SameSocials /\ \A f \in ListFields : SameCandidates(f)

\* C15 amended: the same for every field but services; a services bucket of
\* more than one candidate that names at least one service is replaced,
\* before the record is built, by one merged candidate: the sorted union of
\* the service lists with the provenance of one of the contributors.
C15_CandidatesKeptButServices ==
    Resolved =>
       /\ SameSocials
       /\ \A f \in ListFields \ {"services"} : SameCandidates(f)
       /\ IF /\ Len(appended["services"]) > 1
             /\ \E i \in 1..Len(appended["services"]) : appended["services"][i].value.items # << >>
          THEN LET entries == truth_record.candidates["services"]
               IN  /\ Len(entries) = 1
                   /\ entries[1].value =
                         List(SortedSet(UNION { Range(appended["services"][i].value.items) :
                                                  i \in 1..Len(appended["services"]) }))
                   /\ \E i \in 1..Len(appended["services"]) :
                         entries[1].provenance = <<appended["services"][i].prov>>
          ELSE SameCandidates("services")

\* C15 witness: a finished run whose record lists a brand name without its
\* legal suffix, a malformed e-mail that validation zeroed, and one merged
\* entry for two service lists.
C15_Witness ==
    /\ opc = "done"
    /\ Len(appended["services"]) = 2
    /\ Len(truth_record.candidates["services"]) = 1
    /\ \E i \in 1..Len(appended["brand_name"]) :
          truth_record.candidates["brand_name"][i].value # appended["brand_name"][i].value
    /\ \E i \in 1..Len(appended["email"]) :
          /\ all_candidates["email"][i].source_weight = 0
          /\ truth_record.candidates["email"][i].score = 0

C17_OneEntryPerContent ==
    /\ [](/\ DOMAIN manifest = DOMAIN file_data
          /\ DOMAIN manifest = { url_to_hash[u] : u \in DOMAIN url_to_hash }
          /\ \A sha \in DOMAIN manifest :
                /\ manifest[sha].sha256 = sha
                /\ Sha256(file_data[sha]) = sha
                /\ manifest[sha].status = "downloaded"
                /\ manifest[sha].original_url \in DOMAIN url_to_hash
                /\ \A i, j \in 1..Len(manifest[sha].referenced_by) :
                      manifest[sha].referenced_by[i] = manifest[sha].referenced_by[j] => i = j
                /\ Range(manifest[sha].referenced_by) =
                      { r[2] : r \in { q \in refs : url_to_hash[q[1]] = sha } })
    /\ [][Len(gets') > Len(gets) => gets'[Len(gets')] \notin DOMAIN url_to_hash]_vars

\* C17 witness: the same bytes were fetched through two URLs and stored
\* once; a later call for a stored URL from a page already listed came back
\* without a request.
C17_Witness ==
    /\ dl.n = 3
    /\ dl.state = "returned"
    /\ dl.returned # ""
    /\ Len(gets) = 2
    /\ Cardinality(DOMAIN url_to_hash) = 2
    /\ Cardinality(DOMAIN manifest) = 1
    /\ \A sha \in DOMAIN manifest : Len(manifest[sha].referenced_by) = 2
    /\ Cardinality(refs) = 2

RECURSIVE StoredBytes(_)
StoredBytes(shas) ==
    IF shas = {}
    THEN 0
    ELSE LET sha == CHOOSE x \in shas : TRUE
         IN  file_data[sha].len + StoredBytes(shas \ {sha})

\* the call in progress got a 200 whose body breaks a limit
BreaksLimit ==
    /\ dl.state = "get"
    /\ dl'.answer.kind = "response" /\ dl'.answer.status = "200"
    /\ \/ dl'.answer.content.len > asset_config.max_asset_bytes
       \/ total_bytes + dl'.answer.content.len > asset_config.max_total_asset_bytes

\* C18: _total_bytes is the sum of the sizes of the stored files and never
\* exceeds max_total_asset_bytes, no stored file is larger than
\* max_asset_bytes; a download that would break either limit returns None,
\* stores nothing and is recorded in the manifest with status "skipped".
C18_BudgetsRespected ==
    /\ [](/\ total_bytes = StoredBytes(DOMAIN file_data)
          /\ total_bytes <= asset_config.max_total_asset_bytes
          /\ \A sha \in DOMAIN file_data :
                /\ file_data[sha].len <= asset_config.max_asset_bytes
                /\ manifest[sha].bytes = file_data[sha].len)
    /\ [][BreaksLimit =>
             /\ dl'.state = "returned" /\ dl'.returned = ""
             /\ UNCHANGED <<file_data, manifest, url_to_hash, total_bytes>>
             /\ Len(skipped') = Len(skipped) + 1
             /\ skipped'[Len(skipped')].status = "skipped"
             /\ skipped'[Len(skipped')].original_url = dl.url]_vars

\* C18 witness: with one file stored and budget left, a body that did not
\* fit the rest of the budget and a body above the file limit were fetched
\* and refused.
C18_Witness ==
    /\ total_bytes > 0
    /\ total_bytes < asset_config.max_total_asset_bytes
    /\ Cardinality(DOMAIN file_data) = 1
    /\ dl.state = "returned" /\ dl.returned = ""
    /\ dl.answer.kind = "response" /\ dl.answer.status = "200"
    /\ \E i, j \in 1..Len(skipped) :
          /\ skipped[i].skip_reason = "exceeds_max_asset_bytes"
          /\ skipped[j].skip_reason = "total_budget_exhausted"


(***************************************************************************)
(* Properties of the crawl queue (SpecCrawl)                               *)
(***************************************************************************)
\* A URL the crawler accepts as a link: the registered domain of the start
\* URL, no skipped extension, no denylisted path.
Eligible(u) ==
    /\ u.dom = base_domain.dom
    /\ u.path \notin {"/doc.pdf", "/admin/users"}

\* C19: every URL put on the queue from a page's links has the registered
\* domain of the start URL, a path without a skipped extension and outside
\* the denylist, and was neither visited nor queued when it was enqueued
\* (so no link is enqueued twice, by one page or by two).
C19_EnqueuedAreEligible ==
    /\ [](\A i \in 1..Len(queue) : queue[i][2] > 0 => Eligible(queue[i][1]))
    /\ [](\A i \in 1..Len(pages) : pages[i].depth > 0 => Eligible(pages[i].url))
    /\ [][(pc = "fetch" /\ pc' = "loop") =>
            \A k \in 1..Len(enq') :
                /\ Eligible(enq'[k])
                /\ enq'[k] \notin visited
                /\ enq'[k] \notin queued
                /\ \A j \in 1..(k - 1) : enq'[j] # enq'[k]
                /\ \E i \in 1..Len(queue') : queue'[i][1] = enq'[k]]_vars

\* a page other than the start page had a link to another subdomain of the
\* site enqueued
C19_Witness ==
    /\ pc = "loop"
    /\ Len(pages) >= 2
    /\ \E k \in 1..Len(enq) : enq[k] = Blog

\* C20: the crawl is breadth-first.  The queue is popped at the head and
\* grows at the tail, the links of a page at depth d are enqueued at depth
\* d + 1, result.pages is in visit order with non-decreasing depth, and
\* while a URL is being fetched no URL of a smaller depth is in the queue.
C20_BreadthFirst ==
    /\ [](\A i, j \in 1..Len(pages) : i < j => pages[i].depth <= pages[j].depth)
    /\ [](\A i \in 1..Len(pages) : pages[i].url = fetched[i])
    /\ [](pc = "fetch" => \A i \in 1..Len(queue) : queue[i][2] >= cur[2])
    /\ [][(pc = "loop" /\ pc' # "done") =>
            (cur' = Head(queue) /\ queue' = Tail(queue))]_vars
    /\ [][(pc = "fetch" /\ pc' = "loop") =>
            queue' = queue \o [k \in 1..Len(enq') |-> <<enq'[k], cur[2] + 1>>]]_vars

\* a URL of depth 1 is being fetched while a URL of depth 2, enqueued by an
\* earlier page of depth 1, waits behind it
C20_Witness ==
    /\ pc = "fetch"
    /\ cur[2] = 1
    /\ Len(pages) = 2
    /\ queue # << >>
    /\ queue[Len(queue)][2] = 2

(***************************************************************************)
(* Properties of the link order (SpecCrawl)                                *)
(***************************************************************************)
\* the step of crawl() that records a fetched page and enqueues its links
Processed == pc = "fetch" /\ pc' = "loop"

\* group of an enqueued URL by the URL itself: 1 when the URL matches a
\* priority pattern, 2 when a navigation element of the page links to it,
\* 3 otherwise
UrlRank(u, links) ==
    IF u.path = "/about" THEN 1
    ELSE IF \E l \in links : l.nav /\ l.url = u THEN 2
    ELSE 3

\* group of an enqueued URL by the links of the page that lead to it: 1 when
\* one of them matches a priority pattern as written (fragment included), 2
\* when one of them sits in a navigation element, 3 otherwise
LinkRank(u, links) ==
    IF \E l \in links : l.priority /\ l.url = u THEN 1
    ELSE IF \E l \in links : l.nav /\ l.url = u THEN 2
    ELSE 3

\* C21 as stated: among the URLs enqueued from one page, the URLs matching a
\* priority pattern come first, then the navigation-element URLs matching
\* none, then the other URLs.
C21_PriorityUrlsFirst ==
    [][Processed =>
         \A j, k \in 1..Len(enq') :
             j < k => UrlRank(enq'[j], page_links') <= UrlRank(enq'[k], page_links')]_vars

\* C21: among the URLs enqueued from one page, the URLs reached by a link
\* that matches a priority pattern as written on the page come first, then
\* the URLs reached by a navigation-element link, then the others; they
\* enter the queue in that order, and a link the page budget drops is of no
\* higher group than any link enqueued.
C21_PriorityLinksFirst ==
    [][Processed =>
         /\ \A j, k \in 1..Len(enq') :
                j < k => LinkRank(enq'[j], page_links') <= LinkRank(enq'[k], page_links')
         /\ \A k \in 1..Len(enq') :
                queue'[Len(queue') - Len(enq') + k][1] = enq'[k]
         /\ cur[2] < config.max_depth =>
                \A l \in page_links' :
                    (/\ Eligible(l.url)
                     /\ l.url \notin visited \cup queued
                     /\ l.url \notin Range(enq'))
                    => \A k \in 1..Len(enq') :
                          LinkRank(enq'[k], page_links') <= LinkRank(l.url, page_links')]_vars

\* a page with a priority link reached through its fragment and a link of
\* another group: both are enqueued, the priority link first
C21_Witness ==
    /\ pc = "loop"
    /\ Len(enq) = 2
    /\ enq[1] = Page
    /\ LinkRank(enq[1], page_links) = 1
    /\ LinkRank(enq[2], page_links) = 3
(***************************************************************************)
(* Properties of the render fallback (SpecCrawl)                           *)
(***************************************************************************)
\* C22: fetch_with_playwright is called at most once in a crawl, only while
\* result.pages is empty, only for a page flagged as a JavaScript shell and
\* only with use_playwright set; whatever the call does, the page is
\* appended as a successful CrawledPage, with the rendered content exactly
\* when the call returned html, and the crawl goes on with its loop.
C22_RenderFallbackOnce ==
    /\ [](renders <= 1)
    /\ [][renders' # renders =>
            /\ pc = "fetch"
            /\ renders' = renders + 1
            /\ fallback' # NoFallback]_vars
    /\ [][(pc = "fetch" /\ fallback' # NoFallback) =>
            /\ Len(pages) = 0
            /\ fallback'.spa
            /\ config.use_playwright
            /\ renders' = renders + 1
            /\ fallback'.outcome \in PlaywrightOutcomes
            /\ pc' = "loop"
            /\ Len(pages') = 1
            /\ pages'[1].url = cur[1]
            /\ pages'[1].success
            /\ pages'[1].content = (IF fallback'.outcome = "html" THEN "rendered" ELSE "static")
            /\ failed_urls' = failed_urls]_vars

\* the fallback raised on the first page, which is recorded with its static
\* content
C22_Witness ==
    /\ pc = "loop"
    /\ fallback.outcome = "Exception"
    /\ renders = 1
    /\ Len(pages) = 1
    /\ pages[1].success
    /\ pages[1].content = "static"
(***************************************************************************)
(* Properties of the winner (SpecExtract)                                  *)
(***************************************************************************)
\* the candidates of field f that are left after resolve_<f> has validated
\* them: all of them where the resolver validates nothing
Survivors(f) ==
    LET HasWeight(c) == c.source_weight > 0
    IN  IF f \in {"email", "phone", "location", "brand_colors"}
        THEN SelectSeq(all_candidates[f], HasWeight)
        ELSE all_candidates[f]

\* C23: for every family but socials, when a candidate survives validation
\* the FieldResult has the value, provenance and notes of a survivor whose
\* score no other survivor exceeds, and that score as confidence.
C23_WinnerIsBestSurvivor ==
    opc = "write" =>
       \A f \in ListFields :
          Survivors(f) # << >> =>
             \E i \in 1..Len(Survivors(f)) :
                LET c == Survivors(f)[i]
                IN  /\ fields[f].value = c.value
                    /\ fields[f].provenance = <<c.prov>>
                    /\ fields[f].notes = c.notes
                    /\ fields[f].confidence = Score(c)
                    /\ \A j \in 1..Len(Survivors(f)) : Score(Survivors(f)[j]) <= Score(c)

\* a run whose best brand name was not the first one found, and whose
\* e-mail candidates were not all valid
C23_Witness ==
    /\ opc = "write"
    /\ Len(all_candidates["brand_name"]) >= 2
    /\ fields["brand_name"].confidence > Score(all_candidates["brand_name"][1])
    /\ Len(Survivors("email")) >= 1
    /\ Len(Survivors("email")) < Len(all_candidates["email"])
(***************************************************************************)
(* Properties of resolve_phone (SpecExtract)                               *)
(***************************************************************************)
\* a "+" followed by digits only
IsE164(value) ==
    /\ value.type = "str"
    /\ Len(value.items) >= 2
    /\ value.items[1] = "+"
    /\ \A i \in 2..Len(value.items) : value.items[i] = "5"

\* the digits of a phone number as it was found
Digits(value) ==
    LET IsFive(ch) == ch = "5"
    IN  SelectSeq(value.items, IsFive)

\* C24: resolve_phone validates every candidate before it deduplicates: an
\* invalid number loses its source weight and is dropped, a valid one gets
\* its E.164 form as value and 0.1 more validator_bonus; after
\* deduplication no two candidates stand for the same number, and a phone
\* FieldResult that is not null carries an E.164 value.
C24_PhoneIsE164 ==
    opc = "write" =>
       LET found == appended["phone"]
           after == all_candidates["phone"]
           kept  == deduplicate_candidates(Survivors("phone"))
       IN  /\ Len(after) = Len(found)
           /\ \A i \in 1..Len(found) :
                 IF PhoneValidator(found[i].value).valid
                 THEN /\ after[i].value = Str(<<"+">> \o Digits(found[i].value))
                      /\ after[i].validator_bonus = found[i].validator_bonus + 10
                      /\ after[i].source_weight = found[i].source_weight
                 ELSE /\ after[i].source_weight = 0
                      /\ fields["phone"].provenance # <<after[i].prov>>
           /\ \A i, j \in 1..Len(kept) : i # j => kept[i].value # kept[j].value
           /\ \A i \in 1..Len(kept) : IsE164(kept[i].value)
           /\ fields["phone"].value # None => IsE164(fields["phone"].value)

\* two spellings of one number and a string that is no number were found;
\* the field is the E.164 form
C24_Witness ==
    /\ opc = "write"
    /\ \E i, j \in 1..Len(appended["phone"]) :
          /\ appended["phone"][i].value # appended["phone"][j].value
          /\ PhoneValidator(appended["phone"][i].value).valid
          /\ PhoneValidator(appended["phone"][j].value).valid
          /\ Digits(appended["phone"][i].value) = Digits(appended["phone"][j].value)
    /\ \E i \in 1..Len(appended["phone"]) : ~PhoneValidator(appended["phone"][i].value).valid
    /\ IsE164(fields["phone"].value)
(***************************************************************************)
(* Properties of _merge_service_candidates (SpecExtract)                   *)
(***************************************************************************)
\* the service names of all candidates
AllServiceNames(cands) == UNION { Range(cands[i].value.items) : i \in 1..Len(cands) }

\* out is one candidate: the sorted, duplicate-free union of the service
\* names of cands, with the weights and provenance of a candidate of cands
\* that no other outscores
IsMergeOf(out, cands) ==
    /\ Len(out) = 1
    /\ out[1].value.type = "list"
    /\ Range(out[1].value.items) = AllServiceNames(cands)
    /\ \A i, j \in 1..Len(out[1].value.items) :
          i < j => Ord(out[1].value.items[i]) < Ord(out[1].value.items[j])
    /\ \E i \in 1..Len(cands) :
          /\ out[1].source_weight = cands[i].source_weight
          /\ out[1].method_weight = cands[i].method_weight
          /\ out[1].prov = cands[i].prov
          /\ \A j \in 1..Len(cands) : Score(cands[j]) <= Score(cands[i])

\* C25 as stated: two or more service-list candidates are merged into one;
\* zero or one candidate is returned unchanged.
C25_MergedIntoOne ==
    opc = "resolve" =>
       IF Len(appended["services"]) >= 2
       THEN IsMergeOf(all_candidates["services"], appended["services"])
       ELSE all_candidates["services"] = appended["services"]

\* C25 amended: two or more service-list candidates that name at least one
\* service are merged into one; zero or one candidate, and candidates that
\* name no service at all, are returned unchanged.
C25_MergedWhenNonEmpty ==
    opc = "resolve" =>
       IF /\ Len(appended["services"]) >= 2
          /\ AllServiceNames(appended["services"]) # {}
       THEN IsMergeOf(all_candidates["services"], appended["services"])
       ELSE all_candidates["services"] = appended["services"]

\* the service lists of two pages were merged, and the best contributor
\* was not the first one found
C25_Witness ==
    /\ opc = "resolve"
    /\ Len(appended["services"]) = 2
    /\ Len(all_candidates["services"]) = 1
    /\ Len(all_candidates["services"][1].value.items) = 3
    /\ all_candidates["services"][1].prov # appended["services"][1].prov
(***************************************************************************)
(* Properties of the logo hint (SpecExtract)                               *)
(***************************************************************************)
\* C26: the colours of the homepage are extracted after the last page has
\* been through the extractors, and the logo URL given to extract_colors is
\* the value that logo resolution returns for the run.
C26_HintIsResolvedLogo ==
    /\ (logo_hint # NoHint => page_i > Len(SuccessfulPages(pages)))
    /\ (opc = "write" => logo_hint = fields["logo"].value)
(***************************************************************************)
(* Properties of the queue-size limit (SpecCrawl)                          *)
(***************************************************************************)
\* C27: when crawl() returns with fewer than max_pages pages, the queue is
\* empty and every acceptable link found on a successful page of depth below
\* max_depth has been fetched: each such link was put on the queue, and every
\* URL that was put on the queue has been visited and handed to fetch().
\* (With max_depth < 0 no page is read and queued holds the start URL alone.)
C27_LimitKeepsBudget ==
    (pc = "done" /\ Len(pages) < config.max_pages)
        => /\ queue = << >>
           /\ unqueued = {}
           /\ IF config.max_depth < 0
              THEN Cardinality(queued) = 1 /\ pages = << >>
              ELSE queued \subseteq visited /\ queued \subseteq Range(fetched)

\* a crawl that returned below its budget after its first page linked to a
\* second page, which was enqueued under the limit and fetched
C27_Witness ==
    /\ pc = "done"
    /\ Len(pages) = 2
    /\ Len(fetched) = 2
    /\ Len(pages) < config.max_pages
    /\ pages[1].success
    /\ pages[1].depth < config.max_depth
    /\ queued = Range(fetched)
(***************************************************************************)
(* Properties of the fetch statistics (SpecFetch)                          *)
(***************************************************************************)
\* C28: between two fetch() calls pages_attempted is the sum of
\* pages_successful, pages_failed and the number of calls that robots.txt
\* refused; pages_cached never exceeds pages_successful + pages_failed; and
\* every call adds exactly one to pages_attempted, which nothing else changes.
C28_StatsAddUp ==
    /\ [](call.state \in {"idle", "returned"}
            => stats.pages_attempted
                 = stats.pages_successful + stats.pages_failed + call.refusals)
    /\ [](stats.pages_cached <= stats.pages_successful + stats.pages_failed)
    /\ [][stats'.pages_attempted
            = stats.pages_attempted + (IF call'.n = call.n THEN 0 ELSE 1)]_vars
    /\ [][call'.n \in {call.n, call.n + 1}]_vars

\* two calls have returned: one refused by robots.txt, one answered from the
\* cache with status 200
C28_Witness ==
    /\ call.state = "returned"
    /\ stats.pages_attempted = 2
    /\ call.refusals = 1
    /\ stats.pages_successful = 1
    /\ stats.pages_cached = 1
(***************************************************************************)
(* Properties of RunManager and RunStore (SpecRun)                         *)
(***************************************************************************)
\* a step of the worker loop of the run or of one of its work() calls
WorkerStep == worker' # worker

\* C29: once stop(run_id) has returned True, the worker of the run sends no
\* further fetch and writes neither pages.json nor meta.json; the run has
\* been finalized exactly once, with status "completed" and completed_at
\* set; and every later stop or progress call finds no such run.
C29_StopStopsTheRun ==
    /\ [][(run_log.stopped /\ WorkerStep)
            => /\ run_log'.fetches = run_log.fetches
               /\ run_store' = run_store]_vars
    /\ [](run_log.stopped
            => /\ run_log.finalizes = 1
               /\ run_store.meta_file.status = "completed"
               /\ run_store.meta_file.completed_at > 0)
    /\ [][(run_log.stopped /\ run_log'.reply # run_log.reply
                           /\ run_log'.reply.op \in {"stop", "progress"})
            => run_log'.reply.value \in {<<"False">>, <<"None">>}]_vars

\* C30: list_pages and get_page write neither pages.json nor meta.json, in
\* every state of a run, so the stored pages are always the documents the
\* worker has saved.
C30_ReadsAreReadOnly ==
    /\ [][(ListPages \/ GetPage) => run_store' = run_store]_vars
    /\ [](run_store.pages_file = run_log.saved)
====
